---- MODULE Spec2Model ----
(***************************************************************************)
(* The Linear MCP server (src/index.ts): one CallTool request handler      *)
(* that dispatches on the tool name, validates the arguments, talks to     *)
(* the remote tracker through linearClient and returns a response.         *)
(*                                                                         *)
(* A handler runs synchronously up to its first await; every later step    *)
(* is the settling of the awaited remote call(s) followed by the code up   *)
(* to the next await or to the return.  The remote tracker is the only     *)
(* state that outlives an invocation.                                      *)
(***************************************************************************)
EXTENDS Integers, Sequences, FiniteSets, TLC

VARIABLES remote, inv, boot

vars == <<remote, inv, boot>>

(***************************************************************************)
(* Bounds                                                                  *)
(***************************************************************************)
\* longest page (nodes array) the remote returns
MaxItems == 2
\* relation lookups of one join (Promise.all) that do not resolve to a value
MaxFaults == 1
\* remote mutations after which no further request is served
MaxMutations == 1
\* remote mutations after which no further request is served when two
\* invocations are in flight
MaxRaceMutations == 2

(***************************************************************************)
(* JavaScript values                                                       *)
(***************************************************************************)
Undefined == "<undefined>"
Null == "<null>"
Empty == ""

\* !v for the string-typed arguments
Falsy(v) == v \in {Undefined, Null, Empty}

\* a faulty default, for comparison: v || d, which replaces 0 as well
CoalesceOr(v, d) == IF v = {} \/ v = {0} THEN d ELSE CHOOSE n \in v : TRUE

\* v ?? d for an optional number, held as {} (absent) or {n}
Coalesce(v, d) == IF v = {} THEN d ELSE CHOOSE n \in v : TRUE

\* the default page size of the list tools
DefaultFirst == 50

(***************************************************************************)
(* The tool declarations (ListTools handler)                               *)
(***************************************************************************)
DeclaredTools ==
  { "create_issue", "list_issues", "update_issue", "list_teams",
    "list_projects", "search_issues", "get_issue", "list_workflow_states",
    "create_comment", "get_issue_by_identifier", "list_labels", "add_label",
    "remove_label", "list_cycles", "get_cycle", "get_project", "get_team",
    "list_users", "get_user", "get_viewer", "list_comments",
    "list_attachments", "list_sub_issues", "create_sub_issue", "link_issues",
    "unlink_issues" }

\* inputSchema.properties of each declared tool
Properties(name) ==
  CASE name = "create_issue" ->
         {"title", "description", "teamId", "assigneeId", "priority", "labels"}
    [] name = "list_issues" -> {"teamId", "assigneeId", "status", "first"}
    [] name = "update_issue" ->
         {"issueId", "title", "description", "stateId", "assigneeId", "priority"}
    [] name = "list_teams" -> {}
    [] name = "list_projects" -> {"teamId", "first"}
    [] name = "search_issues" -> {"query", "first"}
    [] name = "get_issue" -> {"issueId"}
    [] name = "list_workflow_states" -> {"teamId"}
    [] name = "create_comment" -> {"issueId", "body"}
    [] name = "get_issue_by_identifier" -> {"identifier"}
    [] name = "list_labels" -> {"teamId"}
    [] name = "add_label" -> {"name", "color", "teamId", "description"}
    [] name = "remove_label" -> {"labelId"}
    [] name = "list_cycles" -> {"teamId", "first"}
    [] name = "get_cycle" -> {"cycleId"}
    [] name = "get_project" -> {"projectId"}
    [] name = "get_team" -> {"teamId"}
    [] name = "list_users" -> {"first"}
    [] name = "get_user" -> {"userId"}
    [] name = "get_viewer" -> {}
    [] name = "list_comments" -> {"issueId", "first"}
    [] name = "list_attachments" -> {"issueId", "first"}
    [] name = "list_sub_issues" -> {"issueId", "first"}
    [] name = "create_sub_issue" ->
         {"parentId", "title", "description", "teamId", "assigneeId",
          "priority", "labels"}
    [] name = "link_issues" -> {"parentId", "childId"}
    [] name = "unlink_issues" -> {"parentId", "childId"}
    [] OTHER -> {}

\* inputSchema.required of each declared tool
Required(name) ==
  CASE name = "create_issue" -> {"title", "teamId"}
    [] name = "update_issue" -> {"issueId"}
    [] name = "search_issues" -> {"query"}
    [] name = "get_issue" -> {"issueId"}
    [] name = "list_workflow_states" -> {"teamId"}
    [] name = "create_comment" -> {"issueId", "body"}
    [] name = "get_issue_by_identifier" -> {"identifier"}
    [] name = "add_label" -> {"name", "color", "teamId"}
    [] name = "remove_label" -> {"labelId"}
    [] name = "list_cycles" -> {"teamId"}
    [] name = "get_cycle" -> {"cycleId"}
    [] name = "get_project" -> {"projectId"}
    [] name = "get_team" -> {"teamId"}
    [] name = "get_user" -> {"userId"}
    [] name = "list_comments" -> {"issueId"}
    [] name = "list_attachments" -> {"issueId"}
    [] name = "list_sub_issues" -> {"issueId"}
    [] name = "create_sub_issue" -> {"parentId", "title", "teamId"}
    [] name = "link_issues" -> {"parentId", "childId"}
    [] name = "unlink_issues" -> {"parentId", "childId"}
    [] OTHER -> {}

(***************************************************************************)
(* The switch of the CallTool handler                                      *)
(***************************************************************************)
\* the case labels of the switch, each once (a repeated label is dead code:
\* the first matching case is the one that runs)
SwitchCases ==
  { "get_project", "get_team", "list_users", "get_user", "get_viewer",
    "list_comments", "list_attachments", "create_issue", "list_issues",
    "update_issue", "list_teams", "list_projects", "search_issues",
    "list_workflow_states", "create_comment", "get_issue_by_identifier",
    "list_labels", "add_label", "remove_label", "list_cycles", "get_cycle",
    "get_issue", "list_sub_issues", "create_sub_issue", "link_issues",
    "unlink_issues" }

\* a faulty switch, for comparison: a name with no case label falls into
\* the case of list_teams instead of the default clause
DispatchToFirstCase(name) ==
  IF name \in SwitchCases THEN name
  ELSE IF name = "" THEN "default" ELSE "list_teams"

\* switch (request.params.name): the case that runs, or "default"
Dispatch(name) == IF name \in SwitchCases THEN name ELSE "default"

\* faulty checks, for comparison: every case tests its first argument only
CheckedLax(case) ==
  CASE case = "create_comment" -> {"issueId"}
    [] case = "add_label" -> {"name", "teamId"}
    [] case \in {"create_sub_issue", "link_issues", "unlink_issues"} -> {"parentId"}
    [] case = "create_issue" -> {"teamId"}
    [] case \in {"update_issue", "get_issue", "list_comments",
                 "list_attachments", "list_sub_issues"} -> {"issueId"}
    [] OTHER -> {}

\* the arguments a case tests with !args?.x before anything else
Checked(case) ==
  CASE case = "get_project" -> {"projectId"}
    [] case \in {"get_team", "list_workflow_states", "list_cycles"} -> {"teamId"}
    [] case = "get_user" -> {"userId"}
    [] case \in {"list_comments", "list_attachments", "update_issue",
                 "get_issue", "list_sub_issues"} -> {"issueId"}
    [] case = "create_issue" -> {"title", "teamId"}
    [] case = "search_issues" -> {"query"}
    [] case = "create_comment" -> {"issueId", "body"}
    [] case = "get_issue_by_identifier" -> {"identifier"}
    [] case = "add_label" -> {"name", "color", "teamId"}
    [] case = "remove_label" -> {"labelId"}
    [] case = "get_cycle" -> {"cycleId"}
    [] case = "create_sub_issue" -> {"parentId", "title", "teamId"}
    [] case \in {"link_issues", "unlink_issues"} -> {"parentId", "childId"}
    [] OTHER -> {}

\* the message of the Error thrown when one of them is falsy
RequiredMessage(case) ==
  CASE case = "get_project" -> "Project ID is required"
    [] case \in {"get_team", "list_workflow_states", "list_cycles"} ->
         "Team ID is required"
    [] case = "get_user" -> "User ID is required"
    [] case \in {"list_comments", "list_attachments", "update_issue",
                 "get_issue"} -> "Issue ID is required"
    [] case = "list_sub_issues" -> "Parent issue ID is required"
    [] case = "create_issue" -> "Title and teamId are required"
    [] case = "search_issues" -> "Search query is required"
    [] case = "create_comment" -> "Issue ID and comment body are required"
    [] case = "get_issue_by_identifier" -> "Issue identifier is required"
    [] case = "add_label" -> "Label name, color, and teamId are required"
    [] case = "remove_label" -> "Label ID is required"
    [] case = "get_cycle" -> "Cycle ID is required"
    [] case = "create_sub_issue" -> "Parent ID, title, and teamId are required"
    [] case \in {"link_issues", "unlink_issues"} ->
         "Parent ID and child ID are required"
    [] OTHER -> ""

(***************************************************************************)
(* The remote tracker, as seen through linearClient                        *)
(***************************************************************************)
\* entities of the workspace that the handlers never create or delete
Teams == {"T1"}
Projects == {"p1", "p2"}
Users == {"u1"}
Cycles == {"c1"}

\* the issues present at start
StartIssues == {"i1", "i2"}

\* the labels present at start (l1 belongs to team T1, l2 to the workspace)
StartLabels == {"l1", "l2"}

\* the comments present at start, both on issue i1 (m2 has no author)
StartComments == {"m1", "m2"}

NoIssueInput ==
  [title |-> Undefined, description |-> Undefined, teamId |-> Undefined,
   assigneeId |-> Undefined, priority |-> Undefined, stateId |-> Undefined,
   parentId |-> Undefined]

StartIssue(id) ==
  [title |-> "t-" \o id, description |-> Undefined, teamId |-> "T1",
   assigneeId |-> IF id = "i1" THEN "u1" ELSE Undefined,
   priority |-> "0", stateId |-> IF id = "i1" THEN "s1" ELSE "s2",
   parentId |-> Null]

\* the parent relations the tracker may start with: none, or one link
StartParents ==
  { [i \in StartIssues |-> Null],
    [i \in StartIssues |-> IF i = "i2" THEN "i1" ELSE Null],
    [i \in StartIssues |-> IF i = "i1" THEN "i2" ELSE Null] }

StartRemote(par) ==
  [issues |-> [i \in StartIssues |-> [StartIssue(i) EXCEPT !.parentId = par[i]]],
   labels |-> [l \in StartLabels |-> IF l = "l1" THEN "T1" ELSE Null],
   comments |-> [m \in StartComments |->
                   [issueId |-> "i1", body |-> "body " \o m,
                    user |-> IF m = "m1" THEN "u1" ELSE Undefined]],
   mutations |-> 0]

\* does the tracker hold an entity of this kind with this id?
Exists(r, ent, id) ==
  CASE ent = "issue" -> id \in DOMAIN r.issues
    [] ent = "team" -> id \in Teams
    [] ent = "project" -> id \in Projects
    [] ent = "user" -> id \in Users
    [] ent = "cycle" -> id \in Cycles
    [] ent = "issueLabel" -> id \in DOMAIN r.labels

\* the object the client builds for an entity (a snapshot of its fields)
IssueNumber(id) == CASE id = "i1" -> 1 [] id = "i2" -> 2 [] id = "i3" -> 3 [] OTHER -> 4

Identifier(id) == "T1-" \o ToString(IssueNumber(id))

Entity(r, ent, id) ==
  CASE ent = "issue" ->
         [id |-> id, identifier |-> Identifier(id), title |-> r.issues[id].title,
          description |-> r.issues[id].description,
          priority |-> r.issues[id].priority, url |-> "url-" \o id,
          createdAt |-> "2024-01-01", updatedAt |-> "2024-01-02",
          startedAt |-> Undefined, metadata |-> Undefined,
          priorityLabel |-> "No priority", completedAt |-> Undefined,
          canceledAt |-> Undefined, dueDate |-> Undefined,
          estimate |-> Undefined, customerTicketCount |-> Undefined,
          branchName |-> "branch-" \o id, archivedAt |-> Undefined,
          autoArchivedAt |-> Undefined, autoClosedAt |-> Undefined,
          trashed |-> Undefined]
    [] ent = "team" ->
         [id |-> id, name |-> "Team " \o id, key |-> id,
          description |-> Undefined,
          createdAt |-> "2024-01-01", updatedAt |-> "2024-01-02"]
    [] ent = "project" ->
         [id |-> id, name |-> "Project " \o id, description |-> "d",
          state |-> IF id = "p2" THEN "completed" ELSE "started",
          url |-> "url-" \o id,
          createdAt |-> "2024-01-01", updatedAt |-> "2024-01-02",
          startedAt |-> "2024-01-03", targetDate |-> "2024-06-01",
          completedAt |-> IF id = "p2" THEN "2024-05-01" ELSE Undefined,
          canceledAt |-> Undefined,
          progress |-> "0.5"]
    [] ent = "user" ->
         [id |-> id, name |-> "User " \o id, email |-> id \o "@x",
          displayName |-> id, avatarUrl |-> Undefined,
          statusEmoji |-> Undefined, statusLabel |-> Undefined,
          active |-> "true", url |-> "url-" \o id,
          createdAt |-> "2024-01-01", updatedAt |-> "2024-01-02"]
    [] ent = "cycle" ->
         [id |-> id, number |-> "1", name |-> "Cycle " \o id,
          description |-> Undefined, startsAt |-> "2024-01-01",
          endsAt |-> "2024-01-15", completedAt |-> Undefined,
          progress |-> "0.5"]
    [] ent = "issueLabel" -> [id |-> id, name |-> "Label " \o id]

\* what a thrown failure of the client carries
RemoteError(op) == [name |-> "LinearError", message |-> "request failed: " \o op]

\* the outcomes of linearClient.<ent>(id): a failure is always possible,
\* otherwise the entity when it exists and no entity when it does not
LookupOutcomes(r, ent, id) ==
  {"throw"} \cup (IF Exists(r, ent, id) THEN {"value"} ELSE {"null"})

\* the members of the collections a query can return
WorkflowStates == {"s1", "s2"}
Attachments == {"a1", "a2"}

Node(r, ent, id) ==
  CASE ent = "state" ->
         [id |-> id, name |-> IF id = "s1" THEN "Todo" ELSE "Done",
          type |-> IF id = "s1" THEN "unstarted" ELSE "completed",
          color |-> "#" \o id,
          description |-> IF id = "s1" THEN "work not started" ELSE Undefined,
          position |-> IF id = "s1" THEN "0" ELSE "1",
          createdAt |-> "2024-01-01", updatedAt |-> "2024-01-02"]
    [] ent = "comment" ->
         [id |-> id, body |-> r.comments[id].body, createdAt |-> "2024-01-01",
          updatedAt |-> "2024-01-02", user |-> r.comments[id].user]
    [] ent = "attachment" ->
         [id |-> id, title |-> "file " \o id,
          url |-> IF id = "a1" THEN "https://x/a1.png" ELSE "https://x/a2.pdf",
          createdAt |-> "2024-01-01", updatedAt |-> "2024-01-02"]
    [] ent = "issueLabel" ->
         [id |-> id, name |-> "Label " \o id, color |-> "#" \o id,
          description |-> Undefined, team |-> r.labels[id]]
    [] OTHER -> Entity(r, ent, id)

\* the ids a query matches in the tracker
StateName(stateId) == IF stateId = "s1" THEN "Todo" ELSE "Done"

Matches(r, q) ==
  CASE q.op \in {"issues", "searchIssues"} ->
         { i \in DOMAIN r.issues :
             /\ "team" \in DOMAIN q.filter => r.issues[i].teamId = q.filter.team
             /\ "teamKey" \in DOMAIN q.filter => r.issues[i].teamId = q.filter.teamKey
             /\ "number" \in DOMAIN q.filter => IssueNumber(i) = q.filter.number
             /\ "assignee" \in DOMAIN q.filter =>
                  r.issues[i].assigneeId = q.filter.assignee
             /\ "state" \in DOMAIN q.filter =>
                  StateName(r.issues[i].stateId) = q.filter.state }
    [] q.op = "issue.children" ->
         { i \in DOMAIN r.issues : r.issues[i].parentId = q.on }
    [] q.op = "cycle.issues" -> DOMAIN r.issues
    [] q.op = "users" -> Users
    [] q.op = "teams" -> Teams
    [] q.op = "projects" ->
         IF "team" \in DOMAIN q.filter /\ q.filter.team \notin Teams
           THEN {} ELSE Projects
    [] q.op = "team.states" -> WorkflowStates
    [] q.op = "team.cycles" -> Cycles
    [] q.op = "issue.comments" ->
         { m \in DOMAIN r.comments : r.comments[m].issueId = q.on }
    [] q.op = "issue.labels" -> IF q.on = "i1" THEN DOMAIN r.labels ELSE {}
    [] q.op = "issue.attachments" -> IF q.on = "i1" THEN Attachments ELSE {}
    [] q.op = "issueLabels" ->
         { l \in DOMAIN r.labels :
             "team" \in DOMAIN q.filter => r.labels[l] = q.filter.team }

\* the kind of node each query returns
NodeKind(op) ==
  CASE op \in {"issues", "searchIssues", "issue.children", "cycle.issues"} -> "issue"
    [] op = "users" -> "user"
    [] op = "teams" -> "team"
    [] op = "projects" -> "project"
    [] op = "team.states" -> "state"
    [] op = "team.cycles" -> "cycle"
    [] op = "issue.comments" -> "comment"
    [] op = "issue.attachments" -> "attachment"
    [] op \in {"issueLabels", "issue.labels"} -> "issueLabel"

\* the order in which the tracker lists entities
IdOrder ==
  <<"T1", "p1", "p2", "u1", "c1", "i1", "i2", "i3", "i4", "l1", "l2", "l3", "l4",
    "s1", "s2", "m1", "m2", "m3", "m4", "a1", "a2">>

Ordered(ids) == SelectSeq(IdOrder, LAMBDA x : x \in ids)

\* the pages (nodes arrays) the tracker may answer a query with: matching
\* entities in the tracker's order, at most `first` of them
Min(a, b) == IF a < b THEN a ELSE b

Pages(r, q) ==
  LET lim == Min(q.first, MaxItems)
  IN  { [j \in 1..Len(Ordered(T)) |-> Node(r, NodeKind(q.op), Ordered(T)[j])] :
          T \in {T \in SUBSET Matches(r, q) : Cardinality(T) <= lim} }

(***************************************************************************)
(* Requests                                                                *)
(***************************************************************************)
\* tool names a client may send: the declared ones and two that are not
ToolNames == DeclaredTools \cup {"delete_issue", ""}

ArgNames ==
  { "projectId", "teamId", "userId", "issueId", "parentId", "childId",
    "labelId", "cycleId", "title", "body", "query", "name", "color",
    "identifier", "description", "assigneeId", "status", "stateId",
    "priority", "labels", "first" }

\* the values tried for each argument; ids ending in x name no entity
ArgValues(k) ==
  CASE k = "projectId" -> {Undefined, Empty, "p1", "p2", "px"}
    [] k = "teamId" -> {Undefined, Empty, "T1", "TX"}
    [] k = "userId" -> {Undefined, Empty, "u1", "ux"}
    [] k = "issueId" -> {Undefined, Empty, "i1", "ix"}
    [] k \in {"parentId", "childId"} -> {Undefined, Empty, "i1", "i2", "ix"}
    [] k = "labelId" -> {Undefined, Empty, "l1", "lx"}
    [] k = "cycleId" -> {Undefined, Empty, "c1", "cx"}
    [] k = "title" -> {Undefined, Empty, "t"}
    [] k = "body" -> {Undefined, Empty, "b"}
    [] k = "query" -> {Undefined, Empty, "q"}
    [] k = "name" -> {Undefined, Empty, "n"}
    [] k = "color" -> {Undefined, Empty, "#f00"}
    [] k = "identifier" -> {Undefined, Empty, "T1-1", "T1-9", "T1", "T1-x"}
    [] k = "description" -> {Undefined, "d"}
    [] k = "assigneeId" -> {Undefined, "u1"}
    [] k = "status" -> {Undefined, "Done"}
    [] k = "stateId" -> {Undefined, "s2"}
    [] k = "priority" -> {Undefined, "2"}
    [] k = "labels" -> {Undefined, "[l1]"}
    [] k = "first" -> {{}, {0}, {1}}

Absent(k) == IF k = "first" THEN {} ELSE Undefined

\* request.params.arguments when the request carries none
NoArgs == [k \in ArgNames |-> Absent(k)]

\* every way to give the properties ks a value
RECURSIVE Extend(_, _)
Extend(ks, base) ==
  IF ks = {} THEN {base}
  ELSE LET k == CHOOSE x \in ks : TRUE
       IN  UNION { Extend(ks \ {k}, [base EXCEPT ![k] = v]) : v \in ArgValues(k) }

\* the optional properties a case only copies into the input of its mutation
PassThrough(name) ==
  CASE name \in {"create_issue", "create_sub_issue"} ->
         {"description", "assigneeId", "priority", "labels"}
    [] name = "update_issue" ->
         {"title", "description", "stateId", "assigneeId", "priority"}
    [] name = "add_label" -> {"description"}
    [] OTHER -> {}

Supplied(k) == CHOOSE v \in ArgValues(k) : ~Falsy(v)

\* the copied properties are tried all absent and all supplied, the others in
\* every combination of their values
\* arguments a client sends although the schema of the tool does not declare
\* them (UpdateIssueArgs has no status)
Undeclared(name) == IF name = "update_issue" THEN {"status"} ELSE {}

ArgSpace(name) ==
  UNION { Extend((Properties(name) \cup Undeclared(name)) \ PassThrough(name), base) :
            base \in { NoArgs,
                       [k \in ArgNames |->
                          IF k \in PassThrough(name) THEN Supplied(k) ELSE Absent(k)] } }

(***************************************************************************)
(* The cases of the switch as sequences of awaits                          *)
(***************************************************************************)
Lookup(ent, arg, label, var) ==
  [kind |-> "lookup", ent |-> ent, arg |-> arg, label |-> label, var |-> var]

Query(op, paged, on) == [kind |-> "query", op |-> op, paged |-> paged, on |-> on]

Items(rels, par) == [kind |-> "items", rels |-> rels, par |-> par]

Mutate(op) == [kind |-> "mutate", op |-> op]

Relation(var, rel) == [kind |-> "relation", var |-> var, rel |-> rel]

\* a faulty create_comment, for comparison: the comment is created without
\* the lookup of its issue
CommentScriptUnchecked == <<Mutate("createComment")>>

\* a faulty create_comment, for comparison: the comment is created twice
CommentScriptTwice ==
  <<Lookup("issue", "issueId", "Issue", "issue"), Mutate("createComment"),
    Mutate("createComment")>>

\* create_comment: the lookup of the issue, then createComment
CommentScript ==
  <<Lookup("issue", "issueId", "Issue", "issue"), Mutate("createComment")>>

\* the remote accesses of a case, in the order the code awaits them
Script(case, args) ==
  CASE case = "get_project" ->
         <<Lookup("project", "projectId", "Project", "project"),
           Relation("project", "teams")>>
    [] case = "get_team" -> <<Lookup("team", "teamId", "Team", "team")>>
    [] case = "list_users" -> <<Query("users", TRUE, "")>>
    [] case = "get_user" -> <<Lookup("user", "userId", "User", "user")>>
    [] case = "get_viewer" -> <<[kind |-> "viewer"]>>
    [] case = "list_comments" ->
         <<Lookup("issue", "issueId", "Issue", "issue"),
           Query("issue.comments", TRUE, "issue"), Items(<<"user">>, TRUE)>>
    [] case = "list_attachments" ->
         <<Lookup("issue", "issueId", "Issue", "issue"),
           Query("issue.attachments", TRUE, "issue")>>
    [] case = "create_issue" -> <<Mutate("createIssue")>>
    [] case = "list_issues" ->
         <<Query("issues", TRUE, ""), Items(<<"state", "assignee">>, FALSE)>>
    [] case = "update_issue" ->
         <<Lookup("issue", "issueId", "Issue", "issue"), Mutate("issue.update")>>
    [] case = "list_teams" -> <<Query("teams", FALSE, "")>>
    [] case = "list_projects" ->
         <<Query("projects", TRUE, ""), Items(<<"teams">>, TRUE)>>
    [] case = "search_issues" ->
         <<Query("searchIssues", TRUE, ""),
           Items(<<"state", "assignee">>, FALSE)>>
    [] case = "list_workflow_states" ->
         <<Lookup("team", "teamId", "Team", "team"),
           Query("team.states", FALSE, "team")>>
    [] case = "create_comment" ->
         CommentScript
    [] case = "get_issue_by_identifier" ->
         <<Query("issues", TRUE, ""), [kind |-> "fanout"]>>
    [] case = "list_labels" ->
         IF ~Falsy(args["teamId"])
           THEN <<Query("issueLabels", FALSE, "team"),
                  Query("issueLabels", FALSE, "workspace"), Items(<<"team">>, TRUE)>>
           ELSE <<Query("issueLabels", FALSE, ""), Items(<<"team">>, TRUE)>>
    [] case = "add_label" -> <<Mutate("createIssueLabel")>>
    [] case = "remove_label" ->
         <<Lookup("issueLabel", "labelId", "Label", "label"),
           Mutate("label.delete")>>
    [] case = "list_cycles" ->
         <<Lookup("team", "teamId", "Team", "team"),
           Query("team.cycles", TRUE, "team")>>
    [] case = "get_cycle" ->
         <<Lookup("cycle", "cycleId", "Cycle", "cycle"), [kind |-> "batch"],
           Items(<<"state">>, TRUE)>>
    [] case = "get_issue" ->
         <<Lookup("issue", "issueId", "Issue", "issue"), [kind |-> "fanout"]>>
    [] case = "list_sub_issues" ->
         <<Lookup("issue", "issueId", "Issue", "issue"),
           Query("issue.children", TRUE, "issue"),
           Items(<<"state", "assignee">>, TRUE)>>
    [] case = "create_sub_issue" ->
         <<Lookup("issue", "parentId", "Parent issue", "parent"),
           Mutate("createIssue")>>
    [] case = "link_issues" -> <<[kind |-> "pair"], Mutate("child.update")>>
    [] case = "unlink_issues" ->
         <<[kind |-> "pair"], Relation("child", "parent"), Mutate("child.update")>>

(***************************************************************************)
(* Errors and responses                                                    *)
(***************************************************************************)
Error(msg) == [name |-> "Error", message |-> msg]

TypeError(prop) ==
  [name |-> "TypeError",
   message |-> "Cannot read properties of null (reading '" \o prop \o "')"]

\* ErrorCode.MethodNotFound and the message McpError builds from it
MethodNotFound == "-32601"

McpError(code, msg) ==
  [name |-> "McpError", message |-> "MCP error " \o code \o ": " \o msg]

\* a faulty not-found error, for comparison: it does not say which id
NotFoundUnnamed(label, id) == Error(label \o " not found")

\* throw new Error(`<Label> ${id} not found`)
NotFound(label, id) == Error(label \o " " \o id \o " not found")

\* a faulty inner catch, for comparison: the cause is rethrown as it is
WrappedPlain(e) == e

\* the wrapper thrown by the inner catch of get_issue
Wrapped(e) == Error("Failed to process issue details: " \o e.message)

\* no response (the handler has not returned one)
NoResp == [content |-> <<>>]

NoError == [name |-> "", message |-> ""]

\* the prefix the catch clause puts before the message of the caught error
ErrorPrefix == "Linear API error: "

\* a faulty catch clause, for comparison: protocol errors are thrown on
CatchRethrowsMcp(e) ==
  IF e.name = "McpError"
    THEN [t |-> "throw", resp |-> NoResp]
    ELSE [t |-> "return",
          resp |-> [content |-> <<[type |-> "text",
                                   text |-> ErrorPrefix \o e.message]>>,
                    isError |-> TRUE]]

\* a faulty catch clause, for comparison: plain errors lose the prefix
CatchBareMessage(e) ==
  [t |-> "return",
   resp |-> [content |-> <<[type |-> "text",
                            text |-> IF e.name = "Error"
                                       THEN e.message
                                       ELSE ErrorPrefix \o e.message]>>,
             isError |-> TRUE]]

\* the catch clause of the handler: what it does with a caught error
Catch(e) ==
  [t |-> "return",
   resp |-> [content |-> <<[type |-> "text", text |-> ErrorPrefix \o e.message]>>,
             isError |-> TRUE]]

\* the response of a case that ran to its return statement
Success(text) == [content |-> <<[type |-> "text", text |-> text]>>]

IsError(resp) == "isError" \in DOMAIN resp /\ resp.isError = TRUE

(***************************************************************************)
(* JSON.stringify: a property whose value is undefined is left out         *)
(***************************************************************************)
Pick(o, fs) == [f \in fs |-> o[f]]

\* an object whose properties are all scalars
Stringify(o) == [k \in {k \in DOMAIN o : o[k] # Undefined} |-> o[k]]

\* an object whose properties `nested` hold arrays or objects
StringifyNested(o, nested) ==
  [k \in {k \in DOMAIN o : k \in nested \/ o[k] # Undefined} |-> o[k]]

(***************************************************************************)
(* Invocations                                                             *)
(***************************************************************************)
EmptyEnv == [ent |-> <<>>, nodes |-> <<>>, rels |-> <<>>, fan |-> <<>>,
             lists |-> <<>>, out |-> [null |-> TRUE]]

Idle ==
  [st |-> "idle", name |-> "", hasArgs |-> FALSE, args |-> NoArgs,
   case |-> "default", pc |-> 0, env |-> EmptyEnv, calls |-> <<>>,
   rounds |-> 0, resp |-> NoResp, err |-> NoError]

\* the await the invocation is suspended at
Stage(i) == Script(i.case, i.args)[i.pc]

\* a remote call as the invocation saw it; `after` is the number of awaits
\* the invocation had completed when the call was issued
Call(op, input, outcome, mutation) ==
  [op |-> op, input |-> input, outcome |-> outcome, mutation |-> mutation,
   after |-> 0]

Issued(i, calls) ==
  i.calls \o [k \in 1..Len(calls) |-> [calls[k] EXCEPT !.after = i.rounds]]

\* a faulty handler, for comparison: the first remote failure of an
\* invocation is swallowed and the await is run again
ThrownRetried(i, calls, rounds, e) ==
  LET c == Catch(e)
  IN  IF e.name = "LinearError" /\ \A k \in 1..Len(i.calls) : i.calls[k].outcome # "throw"
        THEN [i EXCEPT !.calls = Issued(i, calls), !.rounds = i.rounds + rounds]
        ELSE [i EXCEPT !.st = IF c.t = "return" THEN "returned" ELSE "faulted",
                       !.calls = Issued(i, calls), !.rounds = i.rounds + rounds,
                       !.resp = c.resp, !.err = e]

\* an error reaches the catch clause
Thrown(i, calls, rounds, e) ==
  LET c == Catch(e)
  IN  [i EXCEPT !.st = IF c.t = "return" THEN "returned" ELSE "faulted",
                !.calls = Issued(i, calls), !.rounds = i.rounds + rounds,
                !.resp = c.resp, !.err = e]

(***************************************************************************)
(* The success payloads (the object each case passes to JSON.stringify)    *)
(***************************************************************************)
EndsWith(str, suffix) ==
  /\ Len(str) >= Len(suffix)
  /\ SubSeq(str, Len(str) - Len(suffix) + 1, Len(str)) = suffix

\* attachment.url.match(/\.(jpg|jpeg|png|gif|webp)$/i)
ImageSuffixes ==
  { ".jpg", ".jpeg", ".png", ".gif", ".webp",
    ".JPG", ".JPEG", ".PNG", ".GIF", ".WEBP" }

IsImageUrl(url) == \E x \in ImageSuffixes : EndsWith(url, x)

UserFields ==
  {"id", "name", "email", "displayName", "avatarUrl", "statusEmoji",
   "statusLabel", "url"}

UserDetails(u, withDates) ==
  Stringify([f \in UserFields \cup {"isActive"} \cup
                   (IF withDates THEN {"createdAt", "updatedAt"} ELSE {}) |->
               IF f = "isActive" THEN u.active ELSE u[f]])

\* the relation objects a resolved lookup yields
Related(rel) ==
  CASE rel \in {"assignee", "creator", "user"} ->
         [id |-> "u1", name |-> "User u1", email |-> "u1@x"]
    [] rel = "team" -> [id |-> "T1", name |-> "Team T1", key |-> "T1"]
    [] rel = "project" -> [id |-> "p1", name |-> "Project p1", state |-> "started"]
    [] rel = "parent" -> [id |-> "i1", title |-> "t-i1", identifier |-> "T1-1"]
    [] rel = "cycle" -> [id |-> "c1", name |-> "Cycle c1", number |-> "1"]
    [] rel = "state" -> [id |-> "s1", name |-> "Todo"]

\* status: state ? state.name : "Unknown"
StatusOf(tag) == IF tag = "value" THEN Related("state").name ELSE "Unknown"

\* assignee: assignee ? assignee.name : "Unassigned"
AssigneeOf(tag) == IF tag = "value" THEN Related("assignee").name ELSE "Unassigned"

IssueRow(issue, rels, fields) ==
  Stringify([f \in fields |->
               CASE f = "status" -> StatusOf(rels["state"])
                 [] f = "assignee" -> AssigneeOf(rels["assignee"])
                 [] OTHER -> issue[f]])

\* v || d
Or(v, d) == IF Falsy(v) THEN d ELSE v

\* the issueDetails object of get_issue and get_issue_by_identifier, after
\* its attachments have been replaced by the image attachments
IssueDetails(env) ==
  LET issue == env.ent["issue"]
      one(rel) == IF env.fan[rel] = "value" THEN [null |-> FALSE, v |-> Related(rel)]
                  ELSE [null |-> TRUE]
      images == SelectSeq(env.lists["attachments"], LAMBDA a : IsImageUrl(a.url))
  IN  StringifyNested(
        [id |-> issue.id, identifier |-> issue.identifier, title |-> issue.title,
         description |-> issue.description, priority |-> issue.priority,
         priorityLabel |-> issue.priorityLabel,
         status |-> StatusOf(env.fan["state"]), url |-> issue.url,
         createdAt |-> issue.createdAt, updatedAt |-> issue.updatedAt,
         startedAt |-> Or(issue.startedAt, Null),
         completedAt |-> Or(issue.completedAt, Null),
         canceledAt |-> Or(issue.canceledAt, Null), dueDate |-> issue.dueDate,
         estimate |-> Or(issue.estimate, Null),
         customerTicketCount |-> Or(issue.customerTicketCount, "0"),
         previousIdentifiers |-> <<>>,
         branchName |-> Or(issue.branchName, ""),
         archivedAt |-> Or(issue.archivedAt, Null),
         autoArchivedAt |-> Or(issue.autoArchivedAt, Null),
         autoClosedAt |-> Or(issue.autoClosedAt, Null),
         trashed |-> Or(issue.trashed, "false"),
         assignee |-> one("assignee"), creator |-> one("creator"),
         team |-> one("team"), project |-> one("project"),
         parent |-> one("parent"), cycle |-> one("cycle"),
         labels |-> [j \in 1..Len(env.lists["labels"]) |->
                       Pick(env.lists["labels"][j], {"id", "name", "color"})],
         comments |-> [j \in 1..Len(env.lists["comments"]) |->
                         Pick(env.lists["comments"][j], {"id", "body", "createdAt"})],
         attachments |-> [j \in 1..Len(images) |->
                            [id |-> images[j].id, title |-> images[j].title,
                             url |-> images[j].url,
                             analysis |-> "Image analysis would go here"]],
         embeddedImages |-> <<>>],
        {"assignee", "creator", "team", "project", "parent", "cycle", "labels",
         "comments", "attachments", "embeddedImages", "previousIdentifiers"})

\* the fields list_workflow_states copies from each workflow state
StateFields == {"id", "name", "type", "color", "description", "position"}

\* a faulty endsAt, for comparison: the target date of the project
ProjectEndsAtTarget(project) == project.targetDate

\* endsAt: project.completedAt
ProjectEndsAt(project) == project.completedAt

\* the text of the success response of each case
Payload(case, args, env) ==
  LET nodes == env.nodes
      out == IF env.out.null THEN "null" ELSE Stringify(env.out.v)
  IN
  CASE case = "get_project" ->
         LET project == env.ent["project"]
             teams == IF env.fan["teams"] = "value" THEN env.lists["teams"] ELSE <<>>
         IN  StringifyNested(
               [id |-> project.id, name |-> project.name,
                description |-> project.description, state |-> project.state,
                teamIds |-> [j \in 1..Len(teams) |-> teams[j].id],
                url |-> project.url, createdAt |-> project.createdAt,
                updatedAt |-> project.updatedAt, startedAt |-> project.startedAt,
                endsAt |-> ProjectEndsAt(project),
                completedAt |-> project.completedAt,
                canceledAt |-> project.canceledAt, progress |-> project.progress],
               {"teamIds"})
    [] case = "get_team" ->
         Stringify(Pick(env.ent["team"],
                        {"id", "name", "key", "description", "createdAt", "updatedAt"}))
    [] case = "list_users" ->
         [j \in 1..Len(nodes) |-> UserDetails(nodes[j], FALSE)]
    [] case = "get_user" -> UserDetails(env.ent["user"], TRUE)
    [] case = "get_viewer" -> UserDetails(env.ent["viewer"], TRUE)
    [] case = "list_comments" ->
         [j \in 1..Len(nodes) |->
            StringifyNested(
              [id |-> nodes[j].id, body |-> nodes[j].body,
               createdAt |-> nodes[j].createdAt, updatedAt |-> nodes[j].updatedAt,
               user |-> IF env.rels[j]["user"] = "value"
                          THEN [null |-> FALSE, v |-> Related("user")]
                          ELSE [null |-> TRUE]],
              {"user"})]
    [] case = "list_attachments" ->
         [j \in 1..Len(nodes) |->
            Stringify(Pick(nodes[j], {"id", "title", "url", "createdAt", "updatedAt"}))]
    [] case \in {"create_issue", "update_issue", "create_comment", "add_label",
                 "create_sub_issue"} -> out
    [] case = "list_issues" ->
         [j \in 1..Len(nodes) |->
            IssueRow(nodes[j], env.rels[j],
                     {"id", "title", "status", "assignee", "priority", "url"})]
    [] case = "search_issues" ->
         [j \in 1..Len(nodes) |->
            IssueRow(nodes[j], env.rels[j],
                     {"id", "title", "status", "assignee", "priority", "url",
                      "metadata"})]
    [] case = "list_teams" ->
         [j \in 1..Len(nodes) |->
            Stringify(Pick(nodes[j], {"id", "name", "key", "description"}))]
    [] case = "list_projects" ->
         [j \in 1..Len(nodes) |->
            StringifyNested(
              [id |-> nodes[j].id, name |-> nodes[j].name,
               description |-> nodes[j].description, state |-> nodes[j].state,
               teamIds |-> IF env.rels[j]["teams"] = "value"
                             THEN <<Related("team").id>> ELSE <<>>],
              {"teamIds"})]
    [] case = "list_workflow_states" ->
         [j \in 1..Len(nodes) |-> Stringify(Pick(nodes[j], StateFields))]
    [] case \in {"get_issue", "get_issue_by_identifier"} -> IssueDetails(env)
    [] case = "list_labels" ->
         [j \in 1..Len(nodes) |->
            StringifyNested(
              [id |-> nodes[j].id, name |-> nodes[j].name,
               color |-> nodes[j].color, description |-> nodes[j].description,
               team |-> IF env.rels[j]["team"] = "value"
                          THEN [null |-> FALSE, v |-> Related("team")]
                          ELSE [null |-> TRUE]],
              {"team"})]
    [] case = "remove_label" ->
         Stringify([success |-> "true", labelId |-> args["labelId"]])
    [] case = "list_cycles" ->
         [j \in 1..Len(nodes) |->
            Stringify(Pick(nodes[j],
                           {"id", "number", "name", "description", "startsAt",
                            "endsAt", "completedAt", "progress"}))]
    [] case = "get_cycle" ->
         LET cycle == env.ent["cycle"]
         IN  StringifyNested(
               [id |-> cycle.id, number |-> cycle.number, name |-> cycle.name,
                description |-> cycle.description, startsAt |-> cycle.startsAt,
                endsAt |-> cycle.endsAt, completedAt |-> cycle.completedAt,
                progress |-> cycle.progress,
                team |-> IF env.fan["team"] = "value"
                           THEN [null |-> FALSE, v |-> Related("team")]
                           ELSE [null |-> TRUE],
                issues |-> [j \in 1..Len(nodes) |->
                              IssueRow(nodes[j], env.rels[j],
                                       {"id", "identifier", "title", "status",
                                        "priority", "url"})]],
               {"team", "issues"})
    [] case = "list_sub_issues" ->
         [j \in 1..Len(nodes) |->
            IssueRow(nodes[j], env.rels[j],
                     {"id", "identifier", "title", "status", "assignee",
                      "priority", "url"})]
    [] case = "link_issues" ->
         LET parent == env.ent["parent"]
             child == env.ent["child"]
         IN  [success |-> "true",
              message |-> "Linked issue " \o child.identifier \o
                          " as child of " \o parent.identifier,
              relationship |->
                [parent |-> Pick(parent, {"id", "identifier", "title"}),
                 child |-> Pick(child, {"id", "identifier", "title"})]]
    [] case = "unlink_issues" ->
         [success |-> "true",
          message |-> "Unlinked issue " \o env.ent["child"].identifier \o
                      " from parent " \o env.ent["parent"].identifier]

\* the code after an await that resolved: the next await, or the return
Advance(i, calls, rounds, env) ==
  LET j == [i EXCEPT !.calls = Issued(i, calls), !.rounds = i.rounds + rounds,
                     !.env = env]
  IN  IF i.pc = Len(Script(i.case, i.args))
        THEN [j EXCEPT !.st = "returned",
                       !.resp = Success(Payload(i.case, i.args, env))]
        ELSE [j EXCEPT !.pc = i.pc + 1]

(***************************************************************************)
(* String helpers of get_issue_by_identifier                               *)
(***************************************************************************)
\* str.split('-')
RECURSIVE Split(_)
Split(str) ==
  IF Len(str) = 0 THEN <<"">>
  ELSE LET rest == Split(Tail(str))
       IN  IF Head(str) = "-" THEN <<"">> \o rest
           ELSE <<SubSeq(str, 1, 1) \o rest[1]>> \o Tail(rest)

\* parseInt yields NaN when the text does not start with a digit
NaN == -1

DigitValue(c) ==
  CASE c = "0" -> 0 [] c = "1" -> 1 [] c = "2" -> 2 [] c = "3" -> 3
    [] c = "4" -> 4 [] c = "5" -> 5 [] c = "6" -> 6 [] c = "7" -> 7
    [] c = "8" -> 8 [] c = "9" -> 9 [] OTHER -> NaN

RECURSIVE Digits(_, _)
Digits(str, acc) ==
  IF Len(str) = 0 \/ DigitValue(SubSeq(str, 1, 1)) = NaN THEN acc
  ELSE Digits(Tail(str), 10 * acc + DigitValue(SubSeq(str, 1, 1)))

\* a faulty parse, for comparison: it reads the number from the team key
ParseIntOfKey(parts) == Digits(parts[1], 0)

\* parseInt(parts[1], 10), parts[1] being undefined when there is no '-'
ParseInt(parts) ==
  IF Len(parts) < 2 \/ Len(parts[2]) = 0 THEN NaN
  ELSE IF DigitValue(SubSeq(parts[2], 1, 1)) = NaN THEN NaN
  ELSE Digits(parts[2], 0)

(***************************************************************************)
(* The input of each query                                                 *)
(***************************************************************************)
FilterArg(k) ==
  CASE k = "team" -> "teamId" [] k = "assignee" -> "assigneeId"
    [] k = "state" -> "status"

\* a faulty filter, for comparison: every key is set, supplied or not
FilterOfAll(args, keys) == [k \in keys |-> args[FilterArg(k)]]

\* if (args?.x) filter.k = { ... eq: args.x }
FilterOf(args, keys) ==
  [k \in {k \in keys : ~Falsy(args[FilterArg(k)])} |-> args[FilterArg(k)]]

\* a faulty second query, for comparison: it asks for the team's labels again
LabelFilterTeamOnly(args, on) == [team |-> args["teamId"]]

\* the filters of the two queries of list_labels with a teamId: the labels
\* of the team, then the labels of no team
LabelFilter(args, on) ==
  IF on = "team" THEN [team |-> args["teamId"]] ELSE [team |-> Null]

QueryInput(i, st) ==
  [op |-> st.op,
   first |-> IF i.case = "get_issue_by_identifier" THEN 1
             ELSE IF st.paged THEN Coalesce(i.args["first"], DefaultFirst)
             ELSE DefaultFirst,
   filter |->
     CASE i.case = "list_issues" -> FilterOf(i.args, {"team", "assignee", "state"})
       [] i.case = "list_projects" -> FilterOf(i.args, {"team"})
       [] i.case = "get_issue_by_identifier" ->
            [number |-> ParseInt(Split(i.args["identifier"])),
             teamKey |-> Split(i.args["identifier"])[1]]
       [] i.case = "list_labels" /\ st.on # "" -> LabelFilter(i.args, st.on)
       [] OTHER -> <<>>,
   query |-> IF i.case = "search_issues" THEN i.args["query"] ELSE Undefined,
   on |-> IF st.on \in DOMAIN i.env.ent THEN i.env.ent[st.on].id ELSE ""]

\* combinedLabels.filter(...): keep the first occurrence of each id
RECURSIVE Dedup(_, _)
Dedup(a, seen) ==
  IF a = <<>> THEN <<>>
  ELSE IF Head(a).id \in seen THEN Dedup(Tail(a), seen)
  ELSE <<Head(a)>> \o Dedup(Tail(a), seen \cup {Head(a).id})

(***************************************************************************)
(* The start of the process                                                *)
(***************************************************************************)
\* the values process.env may hold for the two variables once the .env file
\* has been loaded
EnvSpace ==
  [LINEAR_API_KEY : {Undefined, Empty, "k1"},
   LINEARAPIKEY : {Undefined, "k2"}]

\* a faulty choice of key, for comparison: LINEARAPIKEY wins
ApiKeyLegacyFirst(env) ==
  IF Falsy(env.LINEARAPIKEY) THEN env.LINEAR_API_KEY ELSE env.LINEARAPIKEY

\* process.env.LINEAR_API_KEY || process.env.LINEARAPIKEY
ApiKey(env) ==
  IF Falsy(env.LINEAR_API_KEY) THEN env.LINEARAPIKEY ELSE env.LINEAR_API_KEY

NoClient == [made |-> FALSE]

\* the process at the first statement after the imports
Launched(env) ==
  [pc |-> "key", env |-> env, key |-> Undefined, client |-> NoClient,
   handlers |-> FALSE, connected |-> FALSE, exit |-> {}]

\* the process once main() has connected the transport
Running(env) ==
  [pc |-> "serving", env |-> env, key |-> ApiKey(env),
   client |-> [made |-> TRUE, apiKey |-> ApiKey(env)],
   handlers |-> TRUE, connected |-> TRUE, exit |-> {}]

\* process.exit(code)
Exit(b, code) == [b EXCEPT !.pc = "exited", !.exit = {code}]

\* const API_KEY = ...; if (!API_KEY) { ...; process.exit(1); }
ReadKey ==
  /\ boot.pc = "key"
  /\ boot' = IF Falsy(ApiKey(boot.env))
              THEN Exit([boot EXCEPT !.key = ApiKey(boot.env)], 1)
              ELSE [boot EXCEPT !.key = ApiKey(boot.env), !.pc = "client"]
  /\ UNCHANGED <<remote, inv>>

\* const linearClient = new LinearClient({ apiKey: API_KEY })
CreateClient ==
  /\ boot.pc = "client"
  /\ boot' = [boot EXCEPT !.client = [made |-> TRUE, apiKey |-> boot.key],
                          !.pc = "handlers"]
  /\ UNCHANGED <<remote, inv>>

\* new Server(...) and the two server.setRequestHandler(...) statements
RegisterHandlers ==
  /\ boot.pc = "handlers"
  /\ boot' = [boot EXCEPT !.handlers = TRUE, !.pc = "main"]
  /\ UNCHANGED <<remote, inv>>

\* main(): await server.connect(transport); a rejection reaches
\* main().catch, which exits with code 1
Connect ==
  /\ boot.pc = "main"
  /\ \/ boot' = [boot EXCEPT !.connected = TRUE, !.pc = "serving"]
     \/ boot' = Exit(boot, 1)
  /\ UNCHANGED <<remote, inv>>

\* requests reach the handler once it is registered and the transport is
\* connected, while the process lives
Serving ==
  /\ boot.pc = "serving" /\ boot.handlers /\ boot.connected /\ boot.exit = {}

(***************************************************************************)
(* The handler                                                             *)
(***************************************************************************)
\* the synchronous start of the handler: dispatch and argument checks
Start(name, hasArgs, args) ==
  LET case == Dispatch(name)
      i == [Idle EXCEPT !.st = "running", !.name = name, !.hasArgs = hasArgs,
                        !.args = args, !.case = case, !.pc = 1]
  IN  IF case = "default"
        THEN Thrown(i, <<>>, 0, McpError(MethodNotFound, "Unknown tool: " \o name))
      ELSE IF \E k \in Checked(case) : Falsy(args[k])
        THEN Thrown(i, <<>>, 0, Error(RequiredMessage(case)))
      ELSE i

\* a CallTool request arrives
Invoke(s) ==
  /\ Serving
  /\ inv[s].st = "idle"
  /\ remote.mutations < MaxMutations
  /\ \E name \in ToolNames, hasArgs \in BOOLEAN :
       /\ \E a \in (IF hasArgs THEN ArgSpace(name) ELSE {NoArgs}) :
            inv' = [inv EXCEPT ![s] = Start(name, hasArgs, a)]
  /\ UNCHANGED <<remote, boot>>

\* the response has been handed to the protocol layer
Reset(s) ==
  /\ inv[s].st = "returned"
  /\ inv' = [inv EXCEPT ![s] = Idle]
  /\ UNCHANGED <<remote, boot>>

Awaiting(s, kind) == inv[s].st = "running" /\ Stage(inv[s]).kind = kind

\* await linearClient.<entity>(id); if (!x) throw new Error("... not found")
SettleLookup(s) ==
  /\ Awaiting(s, "lookup")
  /\ LET i == inv[s]
         st == Stage(i)
         id == i.args[st.arg]
     IN  \E o \in LookupOutcomes(remote, st.ent, id) :
           LET call == <<Call(st.ent, id, o, FALSE)>>
           IN  inv' = [inv EXCEPT ![s] =
                 CASE o = "throw" -> Thrown(i, call, 1, RemoteError(st.ent))
                   [] o = "null" ->
                        Thrown(i, call, 1, NotFound(st.label, id))
                   [] OTHER ->
                        Advance(i, call, 1,
                                [i.env EXCEPT !.ent =
                                   (st.var :> Entity(remote, st.ent, id)) @@ @])]
  /\ UNCHANGED <<remote, boot>>

\* await Promise.all([linearClient.issue(parentId), linearClient.issue(childId)])
\* followed by the two not-found checks, parent first
SettlePair(s) ==
  /\ Awaiting(s, "pair")
  /\ LET i == inv[s]
         pid == i.args["parentId"]
         cid == i.args["childId"]
     IN  \E op \in LookupOutcomes(remote, "issue", pid),
            oc \in LookupOutcomes(remote, "issue", cid) :
           LET calls == <<Call("issue", pid, op, FALSE), Call("issue", cid, oc, FALSE)>>
           IN  inv' = [inv EXCEPT ![s] =
                 CASE "throw" \in {op, oc} ->
                        Thrown(i, calls, 1, RemoteError("issue"))
                   [] "throw" \notin {op, oc} /\ op = "null" ->
                        Thrown(i, calls, 1, NotFound("Parent issue", pid))
                   [] "throw" \notin {op, oc} /\ op # "null" /\ oc = "null" ->
                        Thrown(i, calls, 1, NotFound("Child issue", cid))
                   [] OTHER ->
                        Advance(i, calls, 1,
                                [i.env EXCEPT !.ent =
                                   ("parent" :> Entity(remote, "issue", pid)) @@
                                   ("child" :> Entity(remote, "issue", cid)) @@ @])]
  /\ UNCHANGED <<remote, boot>>

\* const viewer = await linearClient.viewer, then viewer.id ...
SettleViewer(s) ==
  /\ Awaiting(s, "viewer")
  /\ LET i == inv[s]
     IN  \E o \in {"value", "null", "throw"} :
           LET call == <<Call("viewer", "", o, FALSE)>>
           IN  inv' = [inv EXCEPT ![s] =
                 CASE o = "throw" -> Thrown(i, call, 1, RemoteError("viewer"))
                   [] o = "null" -> Thrown(i, call, 1, TypeError("id"))
                   [] OTHER ->
                        Advance(i, call, 1,
                                [i.env EXCEPT !.ent =
                                   ("viewer" :> Entity(remote, "user", "u1")) @@ @])]
  /\ UNCHANGED <<remote, boot>>

\* await of a query, then the use of its nodes
SettleQuery(s) ==
  /\ Awaiting(s, "query")
  /\ LET i == inv[s]
         st == Stage(i)
         q == QueryInput(i, st)
     IN  \/ \E o \in {"null", "throw"} :
              inv' = [inv EXCEPT ![s] =
                Thrown(i, <<Call(st.op, q, o, FALSE)>>, 1,
                       IF o = "throw" THEN RemoteError(st.op) ELSE TypeError("nodes"))]
         \/ \E page \in Pages(remote, q) :
              LET call == <<Call(st.op, q, "value", FALSE)>>
              IN  inv' = [inv EXCEPT ![s] =
                    IF i.case = "get_issue_by_identifier" /\ Len(page) = 0
                      THEN Thrown(i, call, 1, NotFound("Issue", i.args["identifier"]))
                    ELSE IF i.case = "get_issue_by_identifier"
                      THEN Advance(i, call, 1,
                                   [i.env EXCEPT !.ent = ("issue" :> page[1]) @@ @,
                                                 !.nodes = page])
                    ELSE IF i.case = "list_labels"
                      THEN Advance(i, call, 1,
                                   [i.env EXCEPT !.nodes = Dedup(@ \o page, {})])
                    ELSE Advance(i, call, 1, [i.env EXCEPT !.nodes = page])]
  /\ UNCHANGED <<remote, boot>>

\* the client method behind a relation getter of a node
RelOp(case, rel) ==
  (CASE case = "list_comments" -> "comment"
     [] case = "list_labels" -> "issueLabel"
     [] case = "list_projects" -> "project"
     [] OTHER -> "issue") \o "." \o rel

\* comment.user ? ... : null and label.team ? ... : null resolve the relation
\* only when the node has one
HasRelation(case, node, rel) ==
  CASE case = "list_comments" -> node.user # Undefined
    [] case = "list_labels" -> node.team # Null
    [] OTHER -> TRUE

\* the relations whose resolved value is dereferenced without a test
Dereferenced(case) == case \in {"list_comments", "list_labels"}

\* await Promise.all(nodes.map(async (node) => ...)): the per-node lookups
SettleItems(s) ==
  /\ Awaiting(s, "items")
  /\ LET i == inv[s]
         st == Stage(i)
         nodes == i.env.nodes
         n == Len(nodes)
         K == Len(st.rels)
         Cells == (1..n) \X (1..K)
     IN  \E f \in [Cells -> {"value", "null", "throw", "skipped"}] :
           /\ Cardinality({c \in Cells : f[c] \in {"null", "throw"}}) <= MaxFaults
           /\ \A c \in Cells :
                LET cut == \/ ~HasRelation(i.case, nodes[c[1]], st.rels[c[2]])
                           \/ /\ ~st.par
                              /\ \E k \in 1..(c[2] - 1) : f[<<c[1], k>>] = "throw"
                IN  (f[c] = "skipped") <=> cut
           /\ LET order == [m \in 1..(n * K) |-> <<((m - 1) \div K) + 1, ((m - 1) % K) + 1>>]
                  issued == SelectSeq(order, LAMBDA c : f[c] # "skipped")
                  calls == [m \in 1..Len(issued) |->
                              Call(RelOp(i.case, st.rels[issued[m][2]]),
                                   nodes[issued[m][1]].id, f[issued[m]], FALSE)]
                  rounds == IF Len(issued) = 0 THEN 0
                            ELSE IF st.par THEN 1
                            ELSE CHOOSE d \in 1..K :
                                   /\ \E c \in Cells : c[2] = d /\ f[c] # "skipped"
                                   /\ \A c \in Cells : f[c] # "skipped" => c[2] <= d
                  errs == { RemoteError(RelOp(i.case, st.rels[c[2]])) :
                              c \in {c \in Cells : f[c] = "throw"} }
                          \cup { TypeError("id") :
                                   c \in {c \in Cells : f[c] = "null" /\ Dereferenced(i.case)} }
                  rels == [j \in 1..n |->
                             [k \in {st.rels[x] : x \in 1..K} |->
                                LET x == CHOOSE x \in 1..K : st.rels[x] = k
                                IN  IF f[<<j, x>>] = "value" THEN "value" ELSE "null"]]
              IN  IF errs # {}
                    THEN \E e \in errs :
                           inv' = [inv EXCEPT ![s] = Thrown(i, calls, rounds, e)]
                    ELSE inv' = [inv EXCEPT ![s] =
                           Advance(i, calls, rounds, [i.env EXCEPT !.rels = rels])]
  /\ UNCHANGED <<remote, boot>>

\* a faulty fan-out, for comparison: an eleventh relation is resolved
IssueRelationsWithHistory ==
  <<"state", "assignee", "creator", "team", "project", "parent", "cycle",
    "labels", "comments", "attachments", "history">>

\* the ten relations get_issue resolves, in the order of the Promise.all
IssueRelations ==
  <<"state", "assignee", "creator", "team", "project", "parent", "cycle",
    "labels", "comments", "attachments">>

IssueCollections == {"labels", "comments", "attachments"}

\* try { await Promise.all([...ten lookups...]); build issueDetails }
\* catch (error) { throw new Error("Failed to process issue details: ...") }
SettleFanout(s) ==
  /\ Awaiting(s, "fanout")
  /\ LET i == inv[s]
         issue == i.env.ent["issue"]
         R == {IssueRelations[x] : x \in 1..Len(IssueRelations)}
         page(rel) == Pages(remote, [op |-> "issue." \o rel, first |-> DefaultFirst,
                                     filter |-> <<>>, on |-> issue.id])
     IN  \E S \in {S \in SUBSET R : Cardinality(S) <= MaxFaults} :
         \E g \in [S -> {"null", "throw"}] :
           LET tag(rel) == IF rel \in S THEN g[rel] ELSE "value"
               calls == [x \in 1..Len(IssueRelations) |->
                           Call("issue." \o IssueRelations[x], issue.id,
                                tag(IssueRelations[x]), FALSE)]
               fan == [rel \in R |-> tag(rel)]
           IN  IF \E rel \in S : g[rel] = "throw"
                 THEN \E rel \in {x \in S : g[x] = "throw"} :
                        inv' = [inv EXCEPT ![s] =
                          Thrown(i, calls, 1, Wrapped(RemoteError("issue." \o rel)))]
               ELSE IF \E rel \in S : rel \in IssueCollections
                 THEN inv' = [inv EXCEPT ![s] =
                        Thrown(i, calls, 1, Wrapped(TypeError("nodes")))]
               ELSE \E ls \in page("labels"), cs \in page("comments"),
                       as \in page("attachments") :
                      inv' = [inv EXCEPT ![s] =
                        Advance(i, calls, 1,
                                [i.env EXCEPT !.fan = fan,
                                   !.lists = [labels |-> ls, comments |-> cs,
                                              attachments |-> as]])]
  /\ UNCHANGED <<remote, boot>>

\* a faulty relationship check, for comparison: any parent will do
IsChildOfAny(current, parent) == current # Null

\* the negation of  !currentParent || currentParent.id !== parentIssue.id
IsChildOf(current, parent) == ~(current = Null \/ current # parent.id)

\* await project.teams (get_project) and await childIssue.parent followed by
\* the relationship check (unlink_issues)
SettleRelation(s) ==
  /\ Awaiting(s, "relation")
  /\ LET i == inv[s]
         st == Stage(i)
         id == i.env.ent[st.var].id
         op == st.var \o "." \o st.rel
     IN  IF i.case = "get_project"
           THEN \/ \E o \in {"null", "throw"} :
                     inv' = [inv EXCEPT ![s] =
                       IF o = "throw"
                         THEN Thrown(i, <<Call(op, id, o, FALSE)>>, 1, RemoteError(op))
                         ELSE Advance(i, <<Call(op, id, o, FALSE)>>, 1,
                                      [i.env EXCEPT !.fan = ("teams" :> "null")])]
                \/ \E page \in Pages(remote, [op |-> "teams", first |-> DefaultFirst,
                                              filter |-> <<>>, on |-> id]) :
                     inv' = [inv EXCEPT ![s] =
                       Advance(i, <<Call(op, id, "value", FALSE)>>, 1,
                               [i.env EXCEPT !.fan = ("teams" :> "value"),
                                             !.lists = ("teams" :> page)])]
           ELSE LET current == remote.issues[id].parentId
                    parent == i.env.ent["parent"]
                    child == i.env.ent["child"]
                    o == IF current = Null THEN "null" ELSE "value"
                IN  \/ inv' = [inv EXCEPT ![s] =
                         Thrown(i, <<Call(op, id, "throw", FALSE)>>, 1, RemoteError(op))]
                    \/ inv' = [inv EXCEPT ![s] =
                         IF ~IsChildOf(current, parent)
                           THEN Thrown(i, <<Call(op, id, o, FALSE)>>, 1,
                                       Error("Issue " \o child.identifier \o
                                             " is not a child of " \o parent.identifier))
                           ELSE Advance(i, <<Call(op, id, o, FALSE)>>, 1, i.env)]
  /\ UNCHANGED <<remote, boot>>

\* the errors the join of get_cycle can end in: a rejected lookup, or the
\* read of issues.nodes when the issues lookup resolved to nothing
BatchErrors(ot, oi) ==
  IF "throw" \in {ot, oi}
    THEN (IF ot = "throw" THEN {RemoteError("cycle.team")} ELSE {})
         \cup (IF oi = "throw" THEN {RemoteError("cycle.issues")} ELSE {})
    ELSE IF oi = "null" THEN {TypeError("nodes")} ELSE {}

\* const [team, issues] = await Promise.all([cycle.team, cycle.issues()])
SettleBatch(s) ==
  /\ Awaiting(s, "batch")
  /\ LET i == inv[s]
         id == i.env.ent["cycle"].id
         q == [op |-> "cycle.issues", first |-> DefaultFirst, filter |-> <<>>,
               query |-> Undefined, on |-> id]
         calls(ot, oi) == <<Call("cycle.team", id, ot, FALSE),
                            Call("cycle.issues", q, oi, FALSE)>>
     IN  \E ot \in {"value", "null", "throw"} :
           \/ \E oi \in {"null", "throw"} :
                \E e \in BatchErrors(ot, oi) :
                  inv' = [inv EXCEPT ![s] = Thrown(i, calls(ot, oi), 1, e)]
           \/ \E page \in Pages(remote, q) :
                inv' = [inv EXCEPT ![s] =
                  IF ot = "throw"
                    THEN Thrown(i, calls(ot, "value"), 1, RemoteError("cycle.team"))
                    ELSE Advance(i, calls(ot, "value"), 1,
                                 [i.env EXCEPT !.nodes = page, !.fan = ("team" :> ot)])]
  /\ UNCHANGED <<remote, boot>>

(***************************************************************************)
(* Mutations                                                               *)
(***************************************************************************)
\* a faulty update, for comparison: the state is taken from a status name
UpdateInputByStatus(args) ==
  [title |-> args["title"], description |-> args["description"],
   stateId |-> CASE args["status"] = "Todo" -> "s1"
                 [] args["status"] = "Done" -> "s2"
                 [] OTHER -> args["stateId"],
   assigneeId |-> args["assigneeId"], priority |-> args["priority"]]

\* issue.update({ title, description, stateId, assigneeId, priority })
UpdateInput(args) ==
  [title |-> args["title"], description |-> args["description"],
   stateId |-> args["stateId"], assigneeId |-> args["assigneeId"],
   priority |-> args["priority"]]

\* a faulty link, for comparison: the child is made its own parent
LinkInputSelf(args) == [parentId |-> args["childId"]]

\* childIssue.update({ parentId: args.parentId })
LinkInput(args) == [parentId |-> args["parentId"]]

\* a faulty sub-issue input, for comparison: the parent is left out
SubIssueInputNoParent(args) ==
  [title |-> args["title"], description |-> args["description"],
   teamId |-> args["teamId"], assigneeId |-> args["assigneeId"],
   priority |-> args["priority"], labelIds |-> args["labels"]]

\* the input of the createIssue call of create_sub_issue
SubIssueInput(args) ==
  [title |-> args["title"], description |-> args["description"],
   teamId |-> args["teamId"], assigneeId |-> args["assigneeId"],
   priority |-> args["priority"], labelIds |-> args["labels"],
   parentId |-> args["parentId"]]

\* the input object each case passes to its create or update call
MutationInput(case, args) ==
  CASE case = "create_issue" ->
         [title |-> args["title"], description |-> args["description"],
          teamId |-> args["teamId"], assigneeId |-> args["assigneeId"],
          priority |-> args["priority"], labelIds |-> args["labels"]]
    [] case = "create_sub_issue" -> SubIssueInput(args)
    [] case = "update_issue" -> UpdateInput(args)
    [] case = "link_issues" -> LinkInput(args)
    [] case = "unlink_issues" -> [parentId |-> Null]
    [] case = "create_comment" -> [issueId |-> args["issueId"], body |-> args["body"]]
    [] case = "add_label" ->
         [name |-> args["name"], color |-> args["color"],
          teamId |-> args["teamId"], description |-> args["description"]]
    [] case = "remove_label" -> [id |-> args["labelId"]]

\* the entity an update or delete is sent to
MutationTarget(case, args) ==
  CASE case = "update_issue" -> args["issueId"]
    [] case \in {"link_issues", "unlink_issues"} -> args["childId"]
    [] case = "remove_label" -> args["labelId"]
    [] OTHER -> ""

NextIssue(r) == "i" \o ToString(Cardinality(DOMAIN r.issues) + 1)

NextComment(r) == "m" \o ToString(Cardinality(DOMAIN r.comments) + 1)

NextLabel(r) == "l" \o ToString(Cardinality(DOMAIN r.labels \cup StartLabels) + 1)

\* does the tracker accept the mutation?
Accepted(r, op, target, input) ==
  CASE op = "createIssue" ->
         /\ input.teamId \in Teams
         /\ "parentId" \in DOMAIN input => input.parentId \in DOMAIN r.issues
    [] op \in {"issue.update", "child.update"} -> target \in DOMAIN r.issues
    [] op = "createComment" -> input.issueId \in DOMAIN r.issues
    [] op = "createIssueLabel" -> input.teamId \in Teams
    [] op = "label.delete" -> target \in DOMAIN r.labels

\* the tracker after an accepted mutation: a field that is undefined in the
\* input is not sent and keeps its value
Applied(r, op, target, input) ==
  [ CASE op = "createIssue" ->
           [r EXCEPT !.issues =
              (NextIssue(r) :>
                 [title |-> input.title, description |-> input.description,
                  teamId |-> input.teamId, assigneeId |-> input.assigneeId,
                  priority |-> input.priority, stateId |-> "s1",
                  parentId |-> IF "parentId" \in DOMAIN input
                                 THEN input.parentId ELSE Null]) @@ @]
      [] op \in {"issue.update", "child.update"} ->
           [r EXCEPT !.issues[target] =
              [k \in DOMAIN @ |->
                 IF k \in DOMAIN input /\ input[k] # Undefined THEN input[k] ELSE @[k]]]
      [] op = "createComment" ->
           [r EXCEPT !.comments =
              (NextComment(r) :> [issueId |-> input.issueId, body |-> input.body,
                                  user |-> "u1"]) @@ @]
      [] op = "createIssueLabel" ->
           [r EXCEPT !.labels = (NextLabel(r) :> input.teamId) @@ @]
      [] op = "label.delete" ->
           [r EXCEPT !.labels = [l \in (DOMAIN @) \ {target} |-> @[l]]]
    EXCEPT !.mutations = r.mutations + 1 ]

\* the payload object the client returns for a mutation
MutationResult(r, op, target) ==
  CASE op = "createIssue" -> [success |-> "true", issueId |-> NextIssue(r)]
    [] op = "createIssueLabel" -> [success |-> "true", issueLabelId |-> NextLabel(r)]
    [] op = "createComment" -> [success |-> "true", commentId |-> NextComment(r)]
    [] OTHER -> [success |-> "true", entityId |-> target]

\* await of a create, update or delete
SettleMutation(s) ==
  /\ Awaiting(s, "mutate")
  /\ LET i == inv[s]
         op == Stage(i).op
         input == MutationInput(i.case, i.args)
         target == MutationTarget(i.case, i.args)
     IN  \/ /\ inv' = [inv EXCEPT ![s] =
                  Thrown(i, <<Call(op, input, "throw", TRUE)>>, 1, RemoteError(op))]
            /\ UNCHANGED remote
         \/ /\ Accepted(remote, op, target, input)
            /\ remote.mutations < MaxMutations
            /\ \E o \in {"value", "null"} :
                 inv' = [inv EXCEPT ![s] =
                   Advance(i, <<Call(op, input, o, TRUE)>>, 1,
                           [i.env EXCEPT !.out =
                              IF o = "null" THEN [null |-> TRUE]
                              ELSE [null |-> FALSE,
                                    v |-> MutationResult(remote, op, target)]])]
            /\ remote' = Applied(remote, op, target, input)
  /\ UNCHANGED boot

(***************************************************************************)
(* The system                                                              *)
(***************************************************************************)
\* one handler invocation is in flight at a time
Slots == {1}

\* the server after its start with LINEAR_API_KEY set
Init ==
  /\ remote \in {StartRemote(par) : par \in StartParents}
  /\ inv = [s \in Slots |-> Idle]
  /\ boot = Running([LINEAR_API_KEY |-> "k1", LINEARAPIKEY |-> Undefined])

Next ==
  \/ \E s \in Slots : Invoke(s)
  \/ \E s \in Slots : SettleLookup(s)
  \/ \E s \in Slots : SettlePair(s)
  \/ \E s \in Slots : SettleViewer(s)
  \/ \E s \in Slots : SettleQuery(s)
  \/ \E s \in Slots : SettleItems(s)
  \/ \E s \in Slots : SettleFanout(s)
  \/ \E s \in Slots : SettleRelation(s)
  \/ \E s \in Slots : SettleBatch(s)
  \/ \E s \in Slots : SettleMutation(s)
  \/ \E s \in Slots : Reset(s)

Spec == Init /\ [][Next]_vars

(***************************************************************************)
(* Two invocations in flight: the handler is async, so a second request is *)
(* served while the first one waits for the tracker                        *)
(***************************************************************************)
RaceSlots == {1, 2}

\* the issues of the tracker the two invocations work on
RaceIssues == {"i1", "i2", "i3"}

\* the tracker with i2 a child of par, or of no issue
RaceRemote(par) ==
  [StartRemote([i \in StartIssues |-> Null]) EXCEPT
     !.issues = [i \in RaceIssues |->
                   [StartIssue(i) EXCEPT !.parentId = IF i = "i2" THEN par ELSE Null]]]

\* the arguments of a link_issues or unlink_issues request for child i2
PairArgs == {[NoArgs EXCEPT !["parentId"] = p, !["childId"] = "i2"] : p \in {"i1", "i3"}}

\* a CallTool request for the tool name arrives while another invocation
\* may be waiting
Arrive(s, name) ==
  /\ Serving
  /\ inv[s].st = "idle"
  /\ remote.mutations < MaxRaceMutations
  /\ \E a \in PairArgs : inv' = [inv EXCEPT ![s] = Start(name, TRUE, a)]
  /\ UNCHANGED <<remote, boot>>

\* await of the update of the child, by either invocation
SettleUpdate(s) ==
  /\ Awaiting(s, "mutate")
  /\ LET i == inv[s]
         op == Stage(i).op
         input == MutationInput(i.case, i.args)
         target == MutationTarget(i.case, i.args)
     IN  \/ /\ inv' = [inv EXCEPT ![s] =
                  Thrown(i, <<Call(op, input, "throw", TRUE)>>, 1, RemoteError(op))]
            /\ UNCHANGED remote
         \/ /\ Accepted(remote, op, target, input)
            /\ remote.mutations < MaxRaceMutations
            /\ \E o \in {"value", "null"} :
                 inv' = [inv EXCEPT ![s] =
                   Advance(i, <<Call(op, input, o, TRUE)>>, 1,
                           [i.env EXCEPT !.out =
                              IF o = "null" THEN [null |-> TRUE]
                              ELSE [null |-> FALSE,
                                    v |-> MutationResult(remote, op, target)]])]
            /\ remote' = Applied(remote, op, target, input)
  /\ UNCHANGED boot

\* slot 1 serves unlink_issues requests, slot 2 link_issues requests
RaceInit ==
  /\ remote \in {RaceRemote(par) : par \in {Null, "i1", "i3"}}
  /\ inv = [s \in RaceSlots |-> Idle]
  /\ boot = Running([LINEAR_API_KEY |-> "k1", LINEARAPIKEY |-> Undefined])

RaceNext ==
  \/ Arrive(1, "unlink_issues")
  \/ Arrive(2, "link_issues")
  \/ \E s \in RaceSlots : SettlePair(s)
  \/ \E s \in RaceSlots : SettleRelation(s)
  \/ \E s \in RaceSlots : SettleUpdate(s)
  \/ \E s \in RaceSlots : Reset(s)

RaceSpec == RaceInit /\ [][RaceNext]_vars

\* the process from its launch, in any environment
StartupInit ==
  /\ remote = StartRemote([i \in StartIssues |-> Null])
  /\ inv = [s \in Slots |-> Idle]
  /\ boot \in {Launched(env) : env \in EnvSpace}

StartupNext ==
  \/ ReadKey
  \/ CreateClient
  \/ RegisterHandlers
  \/ Connect
  \/ \E s \in Slots : Invoke(s)
  \/ \E s \in Slots : SettleLookup(s)
  \/ \E s \in Slots : SettlePair(s)
  \/ \E s \in Slots : SettleViewer(s)
  \/ \E s \in Slots : SettleQuery(s)
  \/ \E s \in Slots : SettleItems(s)
  \/ \E s \in Slots : SettleFanout(s)
  \/ \E s \in Slots : SettleRelation(s)
  \/ \E s \in Slots : SettleBatch(s)
  \/ \E s \in Slots : SettleMutation(s)
  \/ \E s \in Slots : Reset(s)

StartupSpec == StartupInit /\ [][StartupNext]_vars

(***************************************************************************)
(* Properties                                                              *)
(***************************************************************************)
Returned(s) == inv[s].st = "returned"

\* the text of the single content item of a response
TextOf(resp) == resp.content[1].text

\* the response the catch clause builds around a message
ErrorResponse(msg) ==
  [content |-> <<[type |-> "text", text |-> ErrorPrefix \o msg]>>, isError |-> TRUE]

Thrower(c) == {k \in 1..Len(c) : c[k].outcome = "throw"}

\* C1: whatever the tool name, the arguments and the outcomes of the remote
\* calls, a handler that finishes does so by returning a response (never by
\* an escaping fault), and that response is either a success payload (one
\* text item, no isError) or one text item with isError = TRUE.
C1_AlwaysAResponse ==
  \A s \in Slots :
    /\ inv[s].st # "faulted"
    /\ Returned(s) =>
         /\ Len(inv[s].resp.content) = 1
         /\ inv[s].resp.content[1].type = "text"
         /\ \/ DOMAIN inv[s].resp = {"content"}
            \/ /\ DOMAIN inv[s].resp = {"content", "isError"}
               /\ inv[s].resp.isError = TRUE
               /\ Len(TextOf(inv[s].resp)) > 0

\* C1 witness: a tool called without arguments whose remote call failed has
\* returned an error response
C1_Witness ==
  \E s \in Slots :
    /\ Returned(s) /\ ~inv[s].hasArgs /\ inv[s].name = "list_teams"
    /\ Thrower(inv[s].calls) # {}
    /\ IsError(inv[s].resp)

\* C2: when an invocation of a tool leaves out one of the arguments the
\* tool's schema declares as required (or carries no arguments at all), the
\* handler returns an error response: no fault, no success.
C2_MissingRequiredIsError ==
  \A s \in Slots :
    ( /\ inv[s].st \notin {"idle", "running"}
      /\ \E k \in Required(inv[s].name) : inv[s].args[k] = Undefined )
    => /\ Returned(s)
       /\ IsError(inv[s].resp)

\* C2 witness: create_sub_issue with parentId and teamId but no title has
\* been answered with an error
C2_Witness ==
  \E s \in Slots :
    /\ Returned(s) /\ inv[s].name = "create_sub_issue" /\ inv[s].hasArgs
    /\ inv[s].args["parentId"] = "i1" /\ inv[s].args["teamId"] = "T1"
    /\ inv[s].args["title"] = Undefined
    /\ IsError(inv[s].resp)

\* C4: every error response, whatever its cause (missing argument, entity
\* not found, remote failure, unknown tool), is isError = TRUE with exactly
\* one text item, "Linear API error: " followed by the message of the cause;
\* and a response is an error response exactly when a cause was caught.
C4_UniformErrors ==
  \A s \in Slots :
    Returned(s) =>
      /\ IsError(inv[s].resp) <=> inv[s].err # NoError
      /\ IsError(inv[s].resp) => inv[s].resp = ErrorResponse(inv[s].err.message)
      /\ (inv[s].name \notin DeclaredTools) =>
           inv[s].err.message = "MCP error -32601: Unknown tool: " \o inv[s].name
      /\ (inv[s].name \in DeclaredTools /\ inv[s].calls = <<>>) =>
           inv[s].err.message = RequiredMessage(inv[s].name)

\* C4 witness: a not-found cause and its error response
C4_Witness ==
  \E s \in Slots :
    /\ Returned(s) /\ inv[s].name = "get_team"
    /\ inv[s].resp = ErrorResponse("Team TX not found")

\* C5: a tool name that is none of the 26 declared tools gets an error
\* response whose message names it, and no remote call is made.
C5_UnknownTool ==
  /\ Cardinality(DeclaredTools) = 26
  /\ \A s \in Slots :
       (inv[s].st # "idle" /\ inv[s].name \notin DeclaredTools) =>
         /\ Returned(s)
         /\ inv[s].calls = <<>>
         /\ inv[s].resp =
              ErrorResponse("MCP error -32601: Unknown tool: " \o inv[s].name)

\* C5 witness: the undeclared tool delete_issue has been answered
C5_Witness ==
  \E s \in Slots :
    /\ Returned(s) /\ inv[s].name = "delete_issue" /\ inv[s].hasArgs
    /\ IsError(inv[s].resp) /\ inv[s].calls = <<>>

\* the arguments that carry the id of an entity, and the ids naming none
IdArgs ==
  {"projectId", "teamId", "userId", "issueId", "parentId", "childId",
   "labelId", "cycleId"}

NoEntity == {"px", "TX", "ux", "ix", "lx", "cx"}

\* the client methods that fetch one entity by id
EntityLookups == {"issue", "team", "project", "user", "cycle", "issueLabel"}

MissLabels ==
  {"Project", "Team", "User", "Issue", "Label", "Cycle", "Parent issue",
   "Child issue"}

\* C3 as stated: whenever an invocation with all its checked arguments
\* supplied names an entity that does not exist, in any id argument of any
\* tool, and no remote call fails (every call resolves, a lookup by id
\* possibly to no entity), the response is an error response whose message
\* says "not found".  (Not so: list_issues with an unknown teamId
\* succeeds with the list the tracker returns.)
C3_AnyUnknownIdIsNotFound ==
  \A s \in Slots :
    ( /\ Returned(s) /\ inv[s].hasArgs
      /\ \A k \in Checked(inv[s].case) : ~Falsy(inv[s].args[k])
      /\ \A k \in 1..Len(inv[s].calls) :
           \/ inv[s].calls[k].outcome = "value"
           \/ /\ inv[s].calls[k].outcome = "null"
              /\ inv[s].calls[k].op \in EntityLookups
      /\ \E k \in IdArgs \cap Properties(inv[s].name) : inv[s].args[k] \in NoEntity )
    => /\ IsError(inv[s].resp)
       /\ EndsWith(TextOf(inv[s].resp), " not found")

\* C3 amended: when a lookup of an entity by id resolves to no entity (and
\* no call of the invocation fails), the response is the error response
\* "<Entity> <id> not found" for a missing id; get_issue_by_identifier says
\* so when its query matches nothing.  The cases that only copy an id into a
\* filter or a mutation input (list_issues, list_projects, create_issue,
\* add_label) raise no error of their own: if they answer with an error,
\* a remote call threw or resolved to nothing.
C3_LookupMissIsNotFound ==
  \A s \in Slots :
    LET c == inv[s].calls
        miss == {k \in 1..Len(c) : c[k].op \in EntityLookups /\ c[k].outcome = "null"}
    IN  Returned(s) =>
          /\ (miss # {} /\ Thrower(c) = {}) =>
               \E k \in miss, L \in MissLabels :
                 inv[s].resp = ErrorResponse(L \o " " \o c[k].input \o " not found")
          /\ ( /\ inv[s].case = "get_issue_by_identifier"
               /\ Len(c) = 1 /\ c[1].outcome = "value" ) =>
               inv[s].resp =
                 ErrorResponse("Issue " \o inv[s].args["identifier"] \o " not found")
          /\ ( /\ inv[s].case \in {"list_issues", "list_projects", "create_issue",
                                   "add_label"}
               /\ c # <<>> /\ IsError(inv[s].resp) ) =>
               \E k \in 1..Len(c) : c[k].outcome \in {"throw", "null"}

\* C3 witness: update_issue on an issue id that names no issue
C3_Witness ==
  \E s \in Slots :
    /\ Returned(s) /\ inv[s].name = "update_issue" /\ inv[s].args["issueId"] = "ix"
    /\ Len(inv[s].calls) = 1 /\ inv[s].calls[1].outcome = "null"
    /\ inv[s].resp = ErrorResponse("Issue ix not found")

\* C6: within an invocation a remote call that failed is not issued again
\* at a later await, and once a call has failed the invocation ends with an
\* error response: the one for a failed call of that await (wrapped by
\* get_issue), or for a null result dereferenced in the same join.
C6_NoRetry ==
  \A s \in Slots :
    LET c == inv[s].calls
    IN  /\ \A k \in Thrower(c), m \in 1..Len(c) :
             ~( /\ c[m].after > c[k].after
                /\ c[m].op = c[k].op
                /\ c[m].input = c[k].input )
        /\ Thrower(c) # {} =>
             /\ Returned(s)
             /\ IsError(inv[s].resp)
             /\ \/ inv[s].err.name = "TypeError"
                \/ \E k \in Thrower(c) :
                     inv[s].resp \in
                       { ErrorResponse("request failed: " \o c[k].op),
                         ErrorResponse("Failed to process issue details: " \o
                                       "request failed: " \o c[k].op) }

\* C6 witness: create_comment whose lookup succeeded and whose mutation
\* failed has returned the error of the mutation after two calls
C6_Witness ==
  \E s \in Slots :
    /\ Returned(s) /\ inv[s].name = "create_comment"
    /\ Len(inv[s].calls) = 2 /\ inv[s].calls[2].outcome = "throw"
    /\ inv[s].resp = ErrorResponse("request failed: createComment")

\* C7: in get_issue and get_issue_by_identifier a failed relation lookup
\* (any of the ten) makes the response the error response "Linear API
\* error: Failed to process issue details: <cause>", which is one text item
\* and nothing of the issue; in list_issues, search_issues, list_sub_issues
\* and get_cycle a failed per-item lookup makes the response the error
\* response of that failure, not a list.
C7_NoPartialResult ==
  \A s \in Slots :
    LET c == inv[s].calls
        fan == { "issue.state", "issue.assignee", "issue.creator", "issue.team",
                 "issue.project", "issue.parent", "issue.cycle", "issue.labels",
                 "issue.comments", "issue.attachments" }
        failed(ops) == {k \in Thrower(c) : c[k].op \in ops}
    IN  Returned(s) =>
          /\ ( /\ inv[s].case \in {"get_issue", "get_issue_by_identifier"}
               /\ failed(fan) # {} ) =>
               \E k \in failed(fan) :
                 inv[s].resp =
                   ErrorResponse("Failed to process issue details: " \o
                                 "request failed: " \o c[k].op)
          /\ ( /\ inv[s].case \in {"list_issues", "search_issues",
                                   "list_sub_issues", "get_cycle"}
               /\ failed({"issue.state", "issue.assignee"}) # {} ) =>
               \E k \in failed({"issue.state", "issue.assignee"}) :
                 inv[s].resp = ErrorResponse("request failed: " \o c[k].op)

\* C7 witness: get_issue whose comments lookup failed while the issue and
\* the other nine relations resolved
C7_Witness ==
  \E s \in Slots :
    /\ Returned(s) /\ inv[s].name = "get_issue" /\ Len(inv[s].calls) = 11
    /\ \A k \in 1..11 :
         inv[s].calls[k].outcome = "throw" <=> inv[s].calls[k].op = "issue.comments"
    /\ inv[s].resp =
         ErrorResponse("Failed to process issue details: request failed: issue.comments")

\* the remote calls a case issues whatever the tracker returns, and the
\* lookups it adds for each node of the list it fetched
StaticCalls(case, args) ==
  CASE case \in {"get_issue", "get_issue_by_identifier"} -> 11
    [] case = "unlink_issues" -> 4
    [] case \in {"link_issues", "get_cycle"} -> 3
    [] case \in {"get_project", "list_comments", "list_attachments",
                 "update_issue", "list_workflow_states", "create_comment",
                 "remove_label", "list_cycles", "list_sub_issues",
                 "create_sub_issue"} -> 2
    [] case = "list_labels" -> IF Falsy(args["teamId"]) THEN 1 ELSE 2
    [] case = "default" -> 0
    [] OTHER -> 1

ItemCalls(case) ==
  CASE case \in {"list_issues", "search_issues", "list_sub_issues"} -> 2
    [] case \in {"list_comments", "list_projects", "list_labels", "get_cycle"} -> 1
    [] OTHER -> 0

\* C8 as stated: no remote call of an invocation waits on the result of an
\* earlier one, i.e. all calls of an invocation belong to one await.  (Not
\* so: create_comment awaits the issue lookup before it creates the comment.)
C8_OneAwait == \A s \in Slots : inv[s].rounds <= 1

\* C8 amended: an invocation awaits the tracker at most three times in a
\* row, each await a single call or a join of parallel calls; the calls of
\* a successful invocation are the fixed ones of its tool (for list_labels:
\* two with a teamId, one without) plus at most one or two lookups for each
\* node of the list it fetched, and no invocation issues more.
C8_BoundedAwaits ==
  \A s \in Slots :
    LET i == inv[s]
        most == StaticCalls(i.case, i.args) + ItemCalls(i.case) * Len(i.env.nodes)
    IN  /\ i.rounds <= 3
        /\ Len(i.calls) <= most
        /\ (Returned(s) /\ ~IsError(i.resp)) => Len(i.calls) >= StaticCalls(i.case, i.args)
        /\ ( /\ Returned(s) /\ ~IsError(i.resp)
             /\ i.case \in {"list_issues", "search_issues", "list_sub_issues", "get_cycle"} )
           => Len(i.calls) = most

\* C8 witness: list_issues that fetched two issues has returned after three
\* awaits and five calls
C8_Witness ==
  \E s \in Slots :
    /\ Returned(s) /\ inv[s].name = "list_issues" /\ ~IsError(inv[s].resp)
    /\ Len(inv[s].env.nodes) = 2 /\ Len(inv[s].calls) = 5 /\ inv[s].rounds = 3

\* C10 as stated: a successful list_workflow_states carries one entry per
\* workflow state the tracker returned, in the same order, each with exactly
\* the fields id, name, type, color, description and position of that state.
\* (Not so: the entry of a state without a description has no description.)
C10_WorkflowStateFields ==
  \A s \in Slots :
    (Returned(s) /\ inv[s].case = "list_workflow_states" /\ ~IsError(inv[s].resp)) =>
      LET text == TextOf(inv[s].resp)
          nodes == inv[s].env.nodes
          fields == {"id", "name", "type", "color", "description", "position"}
      IN  /\ Len(text) = Len(nodes)
          /\ \A j \in 1..Len(text) :
               /\ DOMAIN text[j] = fields
               /\ \A f \in fields : text[j][f] = nodes[j][f]

\* the ids of a list of objects, in order
Ids(a) == [j \in 1..Len(a) |-> a[j].id]

\* C11 as stated: a successful get_issue or get_issue_by_identifier lists
\* every label, every comment and every attachment the tracker returned for
\* the issue, in its labels, comments and attachments.  (Not so: an
\* attachment whose url is not that of an image is left out.)
C11_ListsComplete ==
  \A s \in Slots :
    ( /\ Returned(s) /\ ~IsError(inv[s].resp)
      /\ inv[s].case \in {"get_issue", "get_issue_by_identifier"} )
    => LET text == TextOf(inv[s].resp)
           lists == inv[s].env.lists
       IN  /\ Ids(text.labels) = Ids(lists["labels"])
           /\ Ids(text.comments) = Ids(lists["comments"])
           /\ Ids(text.attachments) = Ids(lists["attachments"])

\* a step in which slot s returns a success response for the given case
Succeeds(s, case) ==
  /\ inv[s].st = "running" /\ inv[s].case = case
  /\ inv'[s].st = "returned" /\ ~IsError(inv'[s].resp)

PagedTools ==
  {"list_issues", "list_projects", "search_issues", "list_cycles", "list_users",
   "list_comments", "list_attachments", "list_sub_issues"}

PagedOp(case) ==
  CASE case = "list_issues" -> "issues"
    [] case = "list_projects" -> "projects"
    [] case = "search_issues" -> "searchIssues"
    [] case = "list_cycles" -> "team.cycles"
    [] case = "list_users" -> "users"
    [] case = "list_comments" -> "issue.comments"
    [] case = "list_attachments" -> "issue.attachments"
    [] case = "list_sub_issues" -> "issue.children"

\* C13: in each of the eight list tools that take first, the query sent to
\* the tracker carries first = the supplied value when one is supplied (0
\* stays 0) and first = 50 when it is omitted; a successful call has sent
\* that query and lists no more nodes than it asked for.
C13_PageSize ==
  \A s \in Slots :
    inv[s].case \in PagedTools =>
      LET c == inv[s].calls
          sent == {k \in 1..Len(c) : c[k].op = PagedOp(inv[s].case)}
          want == IF inv[s].args["first"] = {} THEN 50
                  ELSE CHOOSE n \in inv[s].args["first"] : TRUE
      IN  /\ \A k \in sent : c[k].input.first = want
          /\ (Returned(s) /\ ~IsError(inv[s].resp)) =>
               /\ Cardinality(sent) = 1
               /\ Len(inv[s].env.nodes) <= want

\* C13 witness: list_users with first = 0 has returned after asking for 0
C13_Witness ==
  \E s \in Slots :
    /\ Returned(s) /\ ~IsError(inv[s].resp) /\ inv[s].case = "list_users"
    /\ inv[s].args["first"] = {0}
    /\ inv[s].calls[1].input.first = 0

\* the filter argument behind each constraint of list_issues: team id,
\* assignee id and state name
Constraints == {"team", "assignee", "state"}

ConstraintArg(k) ==
  CASE k = "team" -> "teamId" [] k = "assignee" -> "assigneeId" [] k = "state" -> "status"

\* C14 as stated: the filter list_issues sends has a constraint for exactly
\* the filter arguments that were supplied.  (Not so: a teamId supplied as
\* the empty string adds no team constraint, and all teams are listed.)
C14_FilterOfSupplied ==
  \A s \in Slots :
    (inv[s].case = "list_issues" /\ inv[s].calls # <<>>) =>
      DOMAIN inv[s].calls[1].input.filter =
        {k \in Constraints : inv[s].args[ConstraintArg(k)] # Undefined}

\* C14 amended: the query list_issues sends has a team-id, assignee-id or
\* state-name constraint exactly for those of teamId, assigneeId and status
\* that were supplied with a non-empty value, each constraint being equality
\* with that value, and no other constraint; with none of them the filter is
\* empty.
C14_FilterOfNonEmpty ==
  \A s \in Slots :
    (inv[s].case = "list_issues" /\ inv[s].calls # <<>>) =>
      LET q == inv[s].calls[1]
          given == {k \in Constraints :
                      inv[s].args[ConstraintArg(k)] \notin {Undefined, Null, ""}}
      IN  /\ q.op = "issues"
          /\ DOMAIN q.input.filter = given
          /\ \A k \in given : q.input.filter[k] = inv[s].args[ConstraintArg(k)]
          /\ q.input.query = Undefined

\* C14 witness: list_issues with a teamId and a status but no assigneeId has
\* sent a filter on team and state
C14_Witness ==
  \E s \in Slots :
    /\ Returned(s) /\ ~IsError(inv[s].resp) /\ inv[s].case = "list_issues"
    /\ inv[s].args["teamId"] = "T1" /\ inv[s].args["status"] = "Done"
    /\ inv[s].args["assigneeId"] = Undefined
    /\ DOMAIN inv[s].calls[1].input.filter = {"team", "state"}
    /\ Len(inv[s].env.nodes) = 1

Mutations(c) == {k \in 1..Len(c) : c[k].mutation}

\* C16: a link_issues invocation returns its success response in the step
\* in which its update of the child settles without failing, after both
\* lookups returned an issue: that update is the invocation's only
\* mutation, it carries parentId and nothing else, the tracker afterwards
\* differs from the tracker before only in the child's parent, which is
\* parentId, and the response names the parent and the child.
C16_LinkSetsParent ==
  [][ \A s \in Slots :
        Succeeds(s, "link_issues") =>
          LET a == inv[s].args
              c == inv'[s].calls
              text == TextOf(inv'[s].resp)
          IN  /\ {"parent", "child"} \subseteq DOMAIN inv[s].env.ent
              /\ \A k \in 1..Len(inv[s].calls) :
                   /\ inv[s].calls[k].op = "issue"
                   /\ inv[s].calls[k].outcome = "value"
              /\ Len(c) = Len(inv[s].calls) + 1
              /\ Mutations(c) = {Len(c)}
              /\ c[Len(c)].op = "child.update"
              /\ c[Len(c)].input = [parentId |-> a["parentId"]]
              /\ c[Len(c)].outcome # "throw"
              /\ remote'.issues =
                   [remote.issues EXCEPT ![a["childId"]].parentId = a["parentId"]]
              /\ remote'.labels = remote.labels
              /\ remote'.comments = remote.comments
              /\ text.relationship.parent.id = a["parentId"]
              /\ text.relationship.child.id = a["childId"]
              /\ text.message = "Linked issue " \o Identifier(a["childId"]) \o
                                " as child of " \o Identifier(a["parentId"]) ]_vars

\* C16 witness: link_issues has returned success for child i2 and parent
\* i1, the update has settled and i2's parent is i1
C16_Witness ==
  \E s \in Slots :
    /\ Returned(s) /\ ~IsError(inv[s].resp) /\ inv[s].case = "link_issues"
    /\ inv[s].args["parentId"] = "i1" /\ inv[s].args["childId"] = "i2"
    /\ \E k \in Mutations(inv[s].calls) :
         inv[s].calls[k].op = "child.update" /\ inv[s].calls[k].outcome = "value"
    /\ remote.issues["i2"].parentId = "i1"
    /\ remote.mutations = 1

\* the error response of unlink_issues for a child that is not a child of
\* the parent
NotAChild(child, parent) ==
  ErrorResponse("Issue " \o Identifier(child) \o " is not a child of " \o
                Identifier(parent))

\* C17: in an unlink_issues invocation, when the read of the child's
\* current parent settles without failing, the invocation goes on to its
\* update only if that parent is the issue parentId; otherwise (no parent,
\* or another one) it returns the error saying the child is not a child of
\* that parent, with no update issued and the tracker unchanged.  The update
\* is issued only while the child's parent is parentId, carries a null
\* parentId and nothing else, and when it does not fail the tracker
\* afterwards differs only in the child's parent, which is cleared.
C17_UnlinkOnlyThatRelation ==
  [][ \A s \in Slots :
        ( /\ inv[s].st = "running" /\ inv[s].case = "unlink_issues"
          /\ Len(inv'[s].calls) > Len(inv[s].calls) ) =>
          LET a == inv[s].args
              c == inv'[s].calls
              new == c[Len(c)]
              cur == remote.issues[a["childId"]].parentId
          IN  /\ (new.op = "child.parent" /\ new.outcome # "throw") =>
                   /\ remote' = remote
                   /\ Mutations(c) = {}
                   /\ IF cur = a["parentId"]
                        THEN inv'[s].st = "running"
                        ELSE /\ inv'[s].st = "returned"
                             /\ inv'[s].resp = NotAChild(a["childId"], a["parentId"])
              /\ new.mutation =>
                   /\ cur = a["parentId"]
                   /\ Mutations(c) = {Len(c)}
                   /\ new.op = "child.update"
                   /\ new.input = [parentId |-> Null]
                   /\ IF new.outcome = "throw"
                        THEN remote' = remote /\ IsError(inv'[s].resp)
                        ELSE /\ remote'.issues =
                                  [remote.issues EXCEPT ![a["childId"]].parentId = Null]
                             /\ remote'.labels = remote.labels
                             /\ remote'.comments = remote.comments
                             /\ inv'[s].st = "returned"
                             /\ ~IsError(inv'[s].resp) ]_vars

\* C17 witness: unlink_issues for child i2, which has no parent, and parent
\* i1 has returned the not-a-child error without issuing an update
C17_Witness ==
  \E s \in Slots :
    /\ Returned(s) /\ inv[s].case = "unlink_issues"
    /\ inv[s].args["parentId"] = "i1" /\ inv[s].args["childId"] = "i2"
    /\ remote.issues["i2"].parentId = Null
    /\ inv[s].resp = NotAChild("i2", "i1")
    /\ Mutations(inv[s].calls) = {}
    /\ remote.mutations = 0

\* the other case of C17: unlink_issues for child i2 of parent i1 has
\* cleared the parent and returned success
C17_Cleared ==
  \E s \in Slots :
    /\ Returned(s) /\ ~IsError(inv[s].resp) /\ inv[s].case = "unlink_issues"
    /\ inv[s].args["parentId"] = "i1" /\ inv[s].args["childId"] = "i2"
    /\ remote.issues["i2"].parentId = Null
    /\ remote.mutations = 1

\* C18: a create_sub_issue invocation issues at most one mutation, a
\* createIssue call whose input is parentId, title, teamId and the
\* optional description, assigneeId, priority and labels (as labelIds) of
\* the arguments; that call is the invocation's second call, issued at a
\* later await than the lookup of the parent, which returned an issue.  When
\* the lookup returns no issue the invocation ends with "Parent issue
\* <parentId> not found", having issued no other call, so that no issue
\* is created.
C18_SubIssueUnderParent ==
  \A s \in Slots :
    inv[s].case = "create_sub_issue" =>
      LET a == inv[s].args
          c == inv[s].calls
      IN  /\ Cardinality(Mutations(c)) <= 1
          /\ \A k \in Mutations(c) :
               /\ k = 2
               /\ c[k].op = "createIssue"
               /\ c[k].input =
                    [parentId |-> a["parentId"], title |-> a["title"],
                     teamId |-> a["teamId"], description |-> a["description"],
                     assigneeId |-> a["assigneeId"], priority |-> a["priority"],
                     labelIds |-> a["labels"]]
               /\ c[1].op = "issue" /\ c[1].input = a["parentId"]
               /\ c[1].outcome = "value"
               /\ c[1].after < c[k].after
               /\ c[k].outcome # "throw" =>
                    \E id \in DOMAIN remote.issues \ StartIssues :
                      /\ remote.issues[id].parentId = a["parentId"]
                      /\ remote.issues[id].title = a["title"]
                      /\ remote.issues[id].teamId = a["teamId"]
          /\ (Len(c) >= 1 /\ c[1].outcome = "null") =>
               /\ Len(c) = 1
               /\ Returned(s)
               /\ inv[s].resp =
                    ErrorResponse("Parent issue " \o a["parentId"] \o " not found")

\* C18 witness: create_sub_issue under i1 with every optional argument
\* supplied has returned success and the new issue i3 is a child of i1
C18_Witness ==
  \E s \in Slots :
    /\ Returned(s) /\ ~IsError(inv[s].resp) /\ inv[s].case = "create_sub_issue"
    /\ inv[s].args["parentId"] = "i1" /\ inv[s].args["description"] = "d"
    /\ inv[s].args["labels"] = "[l1]"
    /\ Mutations(inv[s].calls) = {2}
    /\ inv[s].calls[2].input.labelIds = "[l1]"
    /\ "i3" \in DOMAIN remote.issues
    /\ remote.issues["i3"].parentId = "i1"

\* the other case of C18: the lookup of the parent ix returned no issue and
\* the invocation has ended without creating one
C18_NoParent ==
  \E s \in Slots :
    /\ Returned(s) /\ inv[s].case = "create_sub_issue"
    /\ inv[s].args["parentId"] = "ix"
    /\ Len(inv[s].calls) = 1 /\ inv[s].calls[1].outcome = "null"
    /\ DOMAIN remote.issues = StartIssues

\* the text of an identifier before its first '-'
RECURSIVE BeforeDash(_)
BeforeDash(str) ==
  IF Len(str) = 0 \/ Head(str) = "-" THEN ""
  ELSE SubSeq(str, 1, 1) \o BeforeDash(Tail(str))

HasDash(str) == Len(BeforeDash(str)) < Len(str)

\* the text of an identifier after its first '-'
AfterDash(str) == SubSeq(str, Len(BeforeDash(str)) + 2, Len(str))

\* the integer a text starts with, NaN when it starts with none
LeadingInt(str) ==
  IF Len(str) = 0 \/ DigitValue(SubSeq(str, 1, 1)) = NaN THEN NaN
  ELSE Digits(str, 0)

\* C19: the first and only query of a get_issue_by_identifier invocation
\* asks for issues whose team key is the text of the identifier before its
\* first '-' and whose number is the integer parsed from the text after it
\* (NaN when there is no '-' or no leading digit), limited to one result.
\* When that query returns no issue the invocation ends, with no further
\* call, in the error "Issue <identifier> not found"; when the invocation
\* succeeds, the issue in the response has that team key and number.
C19_ResolvesIdentifier ==
  \A s \in Slots :
    (inv[s].case = "get_issue_by_identifier" /\ Len(inv[s].calls) >= 1) =>
      LET id == inv[s].args["identifier"]
          c == inv[s].calls
          key == BeforeDash(id)
          number == IF HasDash(id) THEN LeadingInt(AfterDash(id)) ELSE NaN
      IN  /\ c[1].op = "issues"
          /\ c[1].input.filter = [teamKey |-> key, number |-> number]
          /\ c[1].input.first = 1
          /\ \A k \in 2..Len(c) : c[k].op # "issues"
          /\ (c[1].outcome = "value" /\ inv[s].env.nodes = <<>>) =>
               /\ Returned(s)
               /\ Len(c) = 1
               /\ inv[s].resp = ErrorResponse("Issue " \o id \o " not found")
          /\ (Returned(s) /\ ~IsError(inv[s].resp)) =>
               /\ number # NaN
               /\ TextOf(inv[s].resp).identifier = key \o "-" \o ToString(number)
               /\ TextOf(inv[s].resp).id \in DOMAIN remote.issues
               /\ IssueNumber(TextOf(inv[s].resp).id) = number

\* C19 witness: get_issue_by_identifier for "T1-x", whose number part is not
\* numeric, has sent its query with number NaN, the query returned no issue
\* and the response is the not-found error
C19_Witness ==
  \E s \in Slots :
    /\ Returned(s) /\ inv[s].case = "get_issue_by_identifier"
    /\ inv[s].args["identifier"] = "T1-x"
    /\ Len(inv[s].calls) = 1 /\ inv[s].calls[1].outcome = "value"
    /\ inv[s].calls[1].input.filter = [teamKey |-> "T1", number |-> NaN]
    /\ inv[s].resp = ErrorResponse("Issue T1-x not found")

\* the other case of C19: "T1-1" has been resolved to issue i1
C19_Resolved ==
  \E s \in Slots :
    /\ Returned(s) /\ ~IsError(inv[s].resp)
    /\ inv[s].case = "get_issue_by_identifier"
    /\ inv[s].args["identifier"] = "T1-1"
    /\ inv[s].calls[1].input.filter = [teamKey |-> "T1", number |-> 1]
    /\ TextOf(inv[s].resp).id = "i1"

\* the process has got no further than the key check
NeverStarted ==
  /\ boot.pc \in {"key", "exited"}
  /\ ~boot.client.made /\ ~boot.handlers /\ ~boot.connected
  /\ boot.pc = "exited" => boot.exit = {1}
  /\ \A s \in Slots : inv[s] = Idle
  /\ remote.mutations = 0

\* C20 as stated: with neither variable set the process exits with code 1
\* before the client is created, a handler registered or the transport
\* connected, and with both set the key is LINEAR_API_KEY.  (Not so when
\* LINEAR_API_KEY is set to the empty string: LINEARAPIKEY is used.)
C20_KeyRequired ==
  /\ (boot.env.LINEAR_API_KEY = Undefined /\ boot.env.LINEARAPIKEY = Undefined)
       => NeverStarted
  /\ ( /\ boot.env.LINEAR_API_KEY # Undefined /\ boot.env.LINEARAPIKEY # Undefined
       /\ boot.pc # "key" )
       => boot.key = boot.env.LINEAR_API_KEY

\* C20 amended: when neither LINEAR_API_KEY nor LINEARAPIKEY holds a
\* non-empty value the process exits with code 1 at the key check, with no
\* client created, no handler registered, the transport not connected and
\* no invocation served; otherwise the key, and the key of the client once
\* created, is LINEAR_API_KEY when that is non-empty and LINEARAPIKEY when
\* LINEAR_API_KEY is unset or empty.  An invocation is served only by a
\* live process with its client created, its handlers registered and its
\* transport connected.
C20_NonEmptyKeyRequired ==
  LET L == boot.env.LINEAR_API_KEY
      LL == boot.env.LINEARAPIKEY
      none == L \in {Undefined, ""} /\ LL \in {Undefined, ""}
  IN  /\ none => NeverStarted
      /\ (none /\ boot.pc # "key") => boot.pc = "exited"
      /\ (~none /\ boot.pc # "key") =>
           boot.key = IF L \in {Undefined, ""} THEN LL ELSE L
      /\ boot.client.made =>
           /\ ~none
           /\ boot.client.apiKey = IF L \in {Undefined, ""} THEN LL ELSE L
      /\ (boot.handlers \/ boot.connected) => boot.client.made
      /\ \A s \in Slots :
           inv[s] # Idle =>
             /\ boot.client.made /\ boot.handlers /\ boot.connected
             /\ boot.exit = {}

\* C20 witness: launched with neither variable set, the process has exited
\* with code 1 at the key check
C20_Witness ==
  /\ boot.env.LINEAR_API_KEY = Undefined /\ boot.env.LINEARAPIKEY = Undefined
  /\ boot.pc = "exited" /\ boot.exit = {1}
  /\ ~boot.client.made /\ ~boot.handlers /\ ~boot.connected

\* the other case of C20: launched with both variables set, the process
\* serves an invocation with a client whose key is LINEAR_API_KEY
C20_BothSet ==
  /\ boot.env.LINEAR_API_KEY = "k1" /\ boot.env.LINEARAPIKEY = "k2"
  /\ boot.client.made /\ boot.client.apiKey = "k1"
  /\ \E s \in Slots : Returned(s)

\* C21: an invocation that leaves a required argument of its tool absent or
\* falsy (the empty string included) is answered in the step in which it
\* arrives, with the error naming the required arguments, having made no
\* call to the remote client; the tracker is the same after that step as
\* before it.
C21_ValidationBeforeRemote ==
  [][ \A s \in Slots :
        ( /\ inv'[s] # inv[s] /\ inv'[s].st # "idle"
          /\ \E k \in Required(inv'[s].name) : Falsy(inv'[s].args[k]) ) =>
          /\ inv[s].st = "idle"
          /\ inv'[s].st = "returned"
          /\ inv'[s].resp = ErrorResponse(RequiredMessage(inv'[s].case))
          /\ inv'[s].calls = <<>>
          /\ inv'[s].rounds = 0
          /\ remote' = remote ]_vars

\* C21 witness: create_comment for issue i1 with an empty body has been
\* rejected without any call to the remote client
C21_Witness ==
  \E s \in Slots :
    /\ Returned(s) /\ inv[s].name = "create_comment" /\ inv[s].hasArgs
    /\ inv[s].args["issueId"] = "i1" /\ inv[s].args["body"] = ""
    /\ inv[s].resp = ErrorResponse("Issue ID and comment body are required")
    /\ inv[s].calls = <<>>
    /\ remote.mutations = 0

\* the cases that look entities up before they change the tracker
GuardedMutators ==
  {"update_issue", "create_comment", "remove_label", "create_sub_issue",
   "link_issues", "unlink_issues"}

\* the lookups by id among the calls ks of c
LookupsIn(c, ks) == {k \in ks : c[k].op \in EntityLookups}

\* the name under which a case reports that its j-th lookup found nothing
MissLabel(case, j) ==
  CASE case \in {"update_issue", "create_comment"} -> "Issue"
    [] case = "remove_label" -> "Label"
    [] j = 1 -> "Parent issue"
    [] OTHER -> "Child issue"

\* C22: in update_issue, create_comment, remove_label, create_sub_issue,
\* link_issues and unlink_issues a mutation is issued at a later await than
\* every lookup by id of the invocation (one lookup, two in link_issues and
\* unlink_issues), and only when each of them returned an entity.  In the
\* step in which a lookup returns no entity the invocation ends with an
\* error, no mutation is issued and the tracker is unchanged; when no
\* lookup of that step failed the error is "<Entity> <id> not found", for
\* the parent if the parent is missing, else for the child.
C22_LookupPrecedesMutation ==
  [][ \A s \in Slots :
        ( /\ inv[s].st = "running" /\ inv[s].case \in GuardedMutators
          /\ Len(inv'[s].calls) > Len(inv[s].calls) ) =>
          LET case == inv[s].case
              c == inv'[s].calls
              new == (Len(inv[s].calls) + 1)..Len(c)
              miss == {k \in LookupsIn(c, new) : c[k].outcome = "null"}
              first == CHOOSE k \in miss : \A m \in miss : k <= m
          IN  /\ miss # {} =>
                   /\ inv'[s].st = "returned"
                   /\ IsError(inv'[s].resp)
                   /\ Mutations(c) = {}
                   /\ remote' = remote
                   /\ (\A k \in new : c[k].outcome # "throw") =>
                        inv'[s].resp =
                          ErrorResponse(MissLabel(case, first) \o " " \o
                                        c[first].input \o " not found")
              /\ \A k \in new :
                   c[k].mutation =>
                     LET before == LookupsIn(c, 1..(k - 1))
                     IN  /\ Cardinality(before) =
                              (IF case \in {"link_issues", "unlink_issues"}
                                 THEN 2 ELSE 1)
                         /\ LookupsIn(c, 1..Len(c)) = before
                         /\ \A j \in before :
                              /\ c[j].outcome = "value"
                              /\ c[j].after < c[k].after ]_vars

\* C22 witness: link_issues whose parent ix and child ix both name no issue
\* has returned the error for the parent, with no mutation issued
C22_Witness ==
  \E s \in Slots :
    /\ Returned(s) /\ inv[s].case = "link_issues"
    /\ inv[s].args["parentId"] = "ix" /\ inv[s].args["childId"] = "ix"
    /\ Len(inv[s].calls) = 2
    /\ inv[s].calls[1].outcome = "null" /\ inv[s].calls[2].outcome = "null"
    /\ inv[s].resp = ErrorResponse("Parent issue ix not found")
    /\ Mutations(inv[s].calls) = {}
    /\ remote.mutations = 0

\* the other case of C22: remove_label has deleted l1 after its lookup
\* returned the label
C22_Removed ==
  \E s \in Slots :
    /\ Returned(s) /\ ~IsError(inv[s].resp) /\ inv[s].case = "remove_label"
    /\ inv[s].calls[1].op = "issueLabel" /\ inv[s].calls[1].outcome = "value"
    /\ Mutations(inv[s].calls) = {2}
    /\ "l1" \notin DOMAIN remote.labels

\* C23 as stated: unlink_issues(parentId, childId) never clears a parent
\* other than parentId, also when a link_issues(q, childId) of another
\* invocation with q different from parentId takes effect during it: when
\* both have returned success, the child is still a child of q.
C23_UnlinkKeepsOtherParent ==
  \A s, t \in DOMAIN inv :
    ( /\ inv[s].st = "returned" /\ inv[s].case = "unlink_issues"
      /\ ~IsError(inv[s].resp)
      /\ inv[t].st = "returned" /\ inv[t].case = "link_issues"
      /\ ~IsError(inv[t].resp)
      /\ inv[t].args["childId"] = inv[s].args["childId"]
      /\ inv[t].args["parentId"] # inv[s].args["parentId"] )
    => remote.issues[inv[s].args["childId"]].parentId = inv[t].args["parentId"]

\* does the chain of parents of issue from reach issue to within fuel steps?
RECURSIVE ReachesParent(_, _, _, _)
ReachesParent(r, from, to, fuel) ==
  IF fuel = 0 \/ from \notin DOMAIN r.issues THEN FALSE
  ELSE LET p == r.issues[from].parentId
       IN  p = to \/ ReachesParent(r, p, to, fuel - 1)

OwnAncestor(r, i) == ReachesParent(r, i, i, Cardinality(DOMAIN r.issues))

\* C24 as stated: no issue of the tracker is its own ancestor, and a
\* link_issues invocation whose parentId is its childId issues no update.
\* (Not so: link_issues tests only that both issues exist and then sends
\* the update.)
C24_ParentAcyclic ==
  /\ \A i \in DOMAIN remote.issues : ~OwnAncestor(remote, i)
  /\ \A s \in DOMAIN inv :
       ( /\ inv[s].case = "link_issues"
         /\ inv[s].args["parentId"] = inv[s].args["childId"] )
       => Mutations(inv[s].calls) = {}

\* the tracker has accepted the update of a link_issues invocation that
\* names i1 as its own parent
C24_SelfParent ==
  /\ remote.issues["i1"].parentId = "i1"
  /\ \E s \in DOMAIN inv :
       /\ inv[s].st = "returned" /\ inv[s].case = "link_issues"
       /\ ~IsError(inv[s].resp)

\* the tools that change the tracker
MutatingTools ==
  {"create_issue", "update_issue", "create_comment", "add_label",
   "remove_label", "create_sub_issue", "link_issues", "unlink_issues"}

\* the create, update and delete calls of the remote client
MutatingOps ==
  {"createIssue", "issue.update", "child.update", "createComment",
   "createIssueLabel", "label.delete"}

\* C25: an invocation of a list_*, get_* or search_issues tool (or of an
\* unknown tool) issues no create, update or delete call, and an invocation
\* of create_issue, update_issue, create_comment, add_label, remove_label,
\* create_sub_issue, link_issues or unlink_issues issues at most one; the
\* tracker has gone through no more mutations than such calls were issued.
C25_MutationsPerTool ==
  \A s \in Slots :
    LET c == inv[s].calls
        m == {k \in 1..Len(c) : c[k].op \in MutatingOps}
    IN  /\ m = Mutations(c)
        /\ inv[s].name \notin MutatingTools => m = {}
        /\ inv[s].name \in MutatingTools => Cardinality(m) <= 1
        /\ (m = {} /\ remote.mutations = 0) =>
             remote \in {StartRemote(par) : par \in StartParents}

\* C25 witness: add_label has returned after exactly one createIssueLabel
\* call, which the tracker applied
C25_Witness ==
  \E s \in Slots :
    /\ Returned(s) /\ ~IsError(inv[s].resp) /\ inv[s].name = "add_label"
    /\ Len(inv[s].calls) = 1 /\ inv[s].calls[1].op = "createIssueLabel"
    /\ remote.mutations = 1
    /\ "l3" \in DOMAIN remote.labels

\* the other case of C25: get_issue has returned after eleven or more calls,
\* none of them a mutation, with the tracker as it started
C25_ReadOnly ==
  \E s \in Slots :
    /\ Returned(s) /\ ~IsError(inv[s].resp) /\ inv[s].name = "get_issue"
    /\ Len(inv[s].calls) > 1
    /\ Mutations(inv[s].calls) = {}
    /\ remote.mutations = 0

\* C26: in a successful get_project response endsAt and completedAt are
\* the same: both hold the completion time the remote returned for the
\* project, or, when it returned none, both are left out of the JSON text.
C26_EndsAtIsCompletedAt ==
  \A s \in Slots :
    (Returned(s) /\ ~IsError(inv[s].resp) /\ inv[s].case = "get_project") =>
      LET text == TextOf(inv[s].resp)
          project == Entity(remote, "project", inv[s].args["projectId"])
      IN  /\ "endsAt" \in DOMAIN text <=> "completedAt" \in DOMAIN text
          /\ "completedAt" \in DOMAIN text <=> project.completedAt # Undefined
          /\ "endsAt" \in DOMAIN text =>
               /\ text.endsAt = text.completedAt
               /\ text.endsAt = project.completedAt

\* C26 witness: get_project for the completed project p2 has returned its
\* completion time in both fields, not its target date
C26_Witness ==
  \E s \in Slots :
    /\ Returned(s) /\ ~IsError(inv[s].resp) /\ inv[s].case = "get_project"
    /\ inv[s].args["projectId"] = "p2"
    /\ TextOf(inv[s].resp).endsAt = "2024-05-01"
    /\ TextOf(inv[s].resp).completedAt = "2024-05-01"
    /\ Entity(remote, "project", "p2").targetDate = "2024-06-01"
====
